---- MODULE Spec2Model ----
(***************************************************************************)
(* State-machine model of the tick-driven race simulation engine           *)
(* (SimulationEngine and its WeatherSystem, RaceLogicSystem,               *)
(* StrategySystem and PhysicsSystem).                                      *)
(*                                                                         *)
(* Units.  All quantities are integers.  Time is counted in seconds and    *)
(* the caller's largest substep is one time unit; speeds are in m/s and    *)
(* distances in metres, so the numeric constants of the code (150, 44,     *)
(* 35, 16, 50, ...) keep their values.  The track is a short circuit whose *)
(* data (length, sectors, pit lane, laps, abrasion) are bounds, and the    *)
(* durations the code draws from the seeded generator are drawn from short *)
(* sets.  Morale, concentration and ERS are kept in 1/Res of a point,      *)
(* tyre wear in 1/1000 of a percent, fuel in grams.  A gap in seconds is   *)
(* kept as the exact fraction n/d.                                         *)
(*                                                                         *)
(* Randomness.  Every draw of the seeded generator (rng.range, rng.chance) *)
(* and of Math.random is an input of the step, chosen from the finite set  *)
(* of outcomes the draw can select between.  MaxEvents caps how many rare  *)
(* outcomes (an incident, a pit-stop error, a resolved overtake, a         *)
(* non-mean noise draw) and control calls (updateStrategy, update(0),      *)
(* startRace outside pre-race, setWeatherMode, setRealWeatherData) one     *)
(* behaviour contains.                                                     *)
(*                                                                         *)
(* Wiring.  simulation.ts calls initializeRace, updateRaceLogic and        *)
(* updateStrategyAI without the strategySystem / driver arguments their    *)
(* definitions take; the model passes the engine's own StrategySystem and  *)
(* the vehicle's driver, which is what the definitions require.            *)
(*                                                                         *)
(* Step size.  update(dt) is called with dt = 0 or dt = 1.  The code's      *)
(* callers keep dt <= 0.1 s so that a step is far shorter than the lap;    *)
(* here the lap is TrackLen metres and one step covers at most 150 m, so   *)
(* the same relation (speed * dt < totalDistance) holds.                   *)
(*                                                                         *)
(* Not modelled: lap times, telemetry traces, gapToLeader, the effect of   *)
(* the track temperature on the speed (taken at the neutral 25 C, whose    *)
(* grip penalty is 0), the drivers' performance scores (the neutral 90),   *)
(* rubber level, stress (constant 0), race id.  Temperatures are in        *)
(* 1/100 C, the wind in 1/10 m/s and 1/10 degree.                          *)
(***************************************************************************)
EXTENDS Integers, Sequences, FiniteSets, TLC

VARIABLES
    eng,    \* the engine: RaceState plus the private fields of the systems
    twin,   \* a second engine built from the same (seed, track, drivers)
    call,   \* the last public operation called and its arguments, and for
            \* update whether its race-logic phase found the race finished
    used,   \* how many rare random outcomes and control calls happened
    snap    \* the state object a consumer got from update and still holds

vars == <<eng, twin, call, used, snap>>

-----------------------------------------------------------------------------
(* Bounds *)

TrackLen == 300        \* track.totalDistance
TotalLaps == 2         \* track.totalLaps
PitLaneTime == 6       \* track.pitLane.stopTime
Abrasion == 200        \* track.tireDegradationFactor
RainProbability == 100 \* track.weatherParams.rainProbability, in percent
MaxTicks == 22         \* updates with dt > 0 in one behaviour
TwinTicks == 10        \* the same, in a behaviour of two engines
MaxEvents == 1         \* rare random outcomes and control calls in one behaviour
MaxIncidents == 4      \* incidents in a behaviour of the incident specification
CrashTicks == 22       \* updates in a behaviour of the incident specification
CrashLaps == 3         \* track.totalLaps in the incident specification
SnapTicks == 6         \* updates in a behaviour with a consumer of the state
RestartIncidents == 2  \* incidents in a behaviour of the red-flag specification
RestartTicks == 18     \* updates in a behaviour of the red-flag specification
ForecastEvents == 2    \* weather calls in a behaviour of the forecast specification
ForecastTicks == 14    \* updates in a behaviour of the forecast specification
ForecastLaps == 10     \* track.totalLaps in the forecast specification
DrsTicks == 26         \* updates in a behaviour of the race-logic specification
UnlapTicks == 5        \* updates in a behaviour that starts under a red flag
FloatBits == 3         \* significant bits of a number in the interpolation on its own
LongLaps == 40         \* track.totalLaps in the long race
LongTicks == 125       \* updates in a behaviour of the long race
LongCalls == 2         \* control calls in a behaviour of the long race
CallEvery == 60        \* the caller's control calls come at multiples of this time
RedFlagTime == 2       \* a draw of rng.range(15, 45)
ScTime == 3            \* a draw of rng.range(180, 400)
VscTime == 2           \* a draw of rng.range(45, 120)
Res == 10              \* resolution of morale, concentration and ERS
WindSpeedDraw == 100   \* the draw of rng.range(5, 20) in initializeRace
WindDirectionDraw == 1800  \* the draw of rng.range(0, 360) in initializeRace
WindTurn == 5          \* a draw of rng.range(-1, 1) per second
WindDrift == 2         \* a draw of rng.range(-0.5, 0.5) per second
BaseTemperature == 25  \* track.baseTemperature

-----------------------------------------------------------------------------
(* Arithmetic helpers *)

Min(a, b) == IF a < b THEN a ELSE b
Max(a, b) == IF a > b THEN a ELSE b
Clamp(lo, hi, x) == Max(lo, Min(hi, x))
\* x * num / den truncated toward zero, as the integer image of a float product
Scale(x, num, den) == IF x * num >= 0 THEN (x * num) \div den ELSE -((-(x * num)) \div den)

\* F applied to the value of x, which is computed once
With(x, F(_)) == CHOOSE r \in {F(y) : y \in {x}} : TRUE

\* a time gap n/d seconds (d > 0)
Gap(n, d) == [n |-> n, d |-> d]
GapZero == Gap(0, 1)
\* g < a/b, g <= a/b, g > a/b   (b > 0)
GapLt(g, a, b) == g.n * b < a * g.d
GapLe(g, a, b) == g.n * b <= a * g.d
GapGt(g, a, b) == g.n * b > a * g.d
\* the gap in milliseconds
GapMs(g) == Scale(g.n, 1000, g.d)

-----------------------------------------------------------------------------
(* Static data: track, drivers, compounds *)

Drivers == {"ver", "per"}
NumVehicles == Cardinality(Drivers)

\* basePace in 1/10 s; the performance scores are the neutral 90
DRIVERS ==
    [d \in Drivers |->
        IF d = "ver"
        THEN [basePace |-> 880, racecraft |-> 99, consistency |-> 98, tyreManagement |-> 95,
              aggression |-> 95, teamPlayer |-> 60, morale |-> 100]
        ELSE [basePace |-> 884, racecraft |-> 85, consistency |-> 82, tyreManagement |-> 92,
              aggression |-> 70, teamPlayer |-> 95, morale |-> 85]]

Sectors ==
    << [startDistance |-> 0,   endDistance |-> 100,      type |-> "straight"],
       [startDistance |-> 100, endDistance |-> 200,      type |-> "corner_high_speed"],
       [startDistance |-> 200, endDistance |-> TrackLen, type |-> "corner_low_speed"] >>

DrsZones == { [activationDistance |-> 20, endDistance |-> 90] }

PitLane == [entryDistance |-> TrackLen - 60, exitDistance |-> 40,
            speedLimit |-> 22, stopTime |-> PitLaneTime]

\* the track the engine is built with, as far as the pit-stop logic reads it
Track == [totalDistance |-> TrackLen, pitLane |-> PitLane]

Slicks == {"soft", "medium", "hard"}
Compounds == Slicks \cup {"intermediate", "wet"}

\* baseWearRate in 1/1000 % per second, grip in 1/1000
TYRE_COMPOUNDS ==
    [c \in Compounds |->
        CASE c = "soft"         -> [baseWearRate |-> 70, grip |-> 1000]
          [] c = "medium"       -> [baseWearRate |-> 45, grip |-> 992]
          [] c = "hard"         -> [baseWearRate |-> 25, grip |-> 985]
          [] c = "intermediate" -> [baseWearRate |-> 50, grip |-> 960]
          [] c = "wet"          -> [baseWearRate |-> 60, grip |-> 900]]

WearFull == 100 * 1000    \* tyreWear 100 %
FuelFull == 100 * 1000    \* fuelLoad 100 kg
Full == 100 * Res         \* morale, concentration, ersLevel 100

\* TyreModel.getWearRate, in 1/1000 % per second
GetWearRate(compound, paceMode, currentWear) ==
    LET r0 == TYRE_COMPOUNDS[compound].baseWearRate * Abrasion
        r1 == IF paceMode = "aggressive" THEN Scale(r0, 13, 10)
              ELSE IF paceMode = "conservative" THEN Scale(r0, 7, 10) ELSE r0
        r2 == IF currentWear > 60 * 1000 THEN Scale(r1, 11, 10) ELSE r1
        r3 == IF currentWear > 80 * 1000 THEN Scale(r2, 12, 10) ELSE r2
    IN  r3

\* TyreModel.getGripFactor at waterDepth 0, in 1/1000
GetGripFactor(compound, wear) ==
    LET w == wear \div 1000
        pen == IF w < 40 THEN Scale(w, 20, 40)
               ELSE IF w < 70 THEN 20 + Scale(w - 40, 50, 30)
               ELSE 70 + Scale(w - 70, 150, 30)
    IN  Max(100, Scale(TYRE_COMPOUNDS[compound].grip, 1000 - pen, 1000))

-----------------------------------------------------------------------------
(* StrategySystem.initializeStrategy *)

Stint(c, a, b) == [compound |-> c, startLap |-> a, endLap |-> b]

\* the candidate stint lists A..D, or the fallback when none is valid;
\* degFactor is track.tireDegradationFactor and varPct the draw
\* 0.9 + Math.random() * 0.2, in percent
CandidateStrategies(driver, degFactor, totalLaps, varPct) ==
    LET D    == degFactor * (250 - DRIVERS[driver].tyreManagement) * varPct
        \* Math.floor(life * k) with life = L / wearMult, wearMult = D / 20000
        Fl(L, kPct) == (L * kPct * 200) \div D
        a    == Fl(15, 90)
        b    == Fl(25, 90)
        c1   == Fl(15, 80)
        c2   == c1 + Fl(25, 80)
        d1   == Fl(15, 85)
        d2   == d1 + Fl(25, 85)
        A    == IF a > 0 /\ a < totalLaps
                THEN << <<Stint("soft", 0, a), Stint("hard", a, totalLaps)>> >> ELSE << >>
        B    == IF b > 0 /\ b < totalLaps
                THEN << <<Stint("medium", 0, b), Stint("hard", b, totalLaps)>> >> ELSE << >>
        C    == IF c1 > 0 /\ c2 < totalLaps
                THEN << <<Stint("soft", 0, c1), Stint("medium", c1, c2),
                          Stint("medium", c2, totalLaps)>> >> ELSE << >>
        DD   == IF d1 > 0 /\ d2 < totalLaps
                THEN << <<Stint("soft", 0, d1), Stint("medium", d1, d2),
                          Stint("soft", d2, totalLaps)>> >> ELSE << >>
        all  == A \o B \o C \o DD
    IN  IF all = << >>
        THEN << <<Stint("medium", 0, totalLaps \div 2),
                  Stint("hard", totalLaps \div 2, totalLaps)>> >>
        ELSE all

\* the indices the weighted selection can return; low is the outcome of
\* randomSeed < 0.6, and the index itself is a Math.random() pick
StrategyChoices(driver, strategies, low) ==
    LET n    == Len(strategies)
        agg  == DRIVERS[driver].aggression
        aggI == {i \in 1..n : Len(strategies[i]) > 2 \/ strategies[i][1].compound = "soft"}
        conI == {i \in 1..n : Len(strategies[i]) = 2 /\ strategies[i][1].compound # "soft"}
        oneI == {i \in 1..n : Len(strategies[i]) = 2}
    IN  IF n <= 1 THEN {1}
        ELSE IF agg > 85
             THEN IF low THEN (IF aggI # {} THEN aggI ELSE {1}) ELSE 1..n
        ELSE IF agg < 60
             THEN IF low THEN (IF conI # {} THEN conI
                               ELSE IF oneI # {} THEN oneI ELSE {1})
                  ELSE 1..n
        ELSE 1..n

\* lines 148-157, moving the first stop and nothing else
ApplyWindowNoiseEndOnly(stints, noise, i) ==
    [stints EXCEPT ![1].endLap = @ + noise[1]]
RECURSIVE ApplyWindowNoise(_, _, _)
\* lines 148-157: stint i (1-based) of the list gets endLap += noise[i]
ApplyWindowNoise(stints, noise, i) ==
    IF i > Len(stints) - 1 THEN stints
    ELSE LET e0 == stints[i].endLap + noise[i]
             e1 == IF e0 < 1 THEN 1 ELSE e0
             e2 == IF i > 1 /\ e1 <= stints[i-1].endLap THEN stints[i-1].endLap + 1 ELSE e1
             s1 == [stints EXCEPT ![i].endLap = e2, ![i+1].startLap = e2]
         IN  ApplyWindowNoise(s1, noise, i + 1)

\* mr: the Math.random() draws [varPct, low, pick, noise]
InitializeStrategy(driver, degFactor, totalLaps, rainPct, mr) ==
    IF rainPct > 60
    THEN [stints |-> << Stint("wet", 0, (totalLaps * 4) \div 10),
                        Stint("intermediate", (totalLaps * 4) \div 10, totalLaps) >>,
          currentStintIndex |-> 0]
    ELSE LET strategies == CandidateStrategies(driver, degFactor, totalLaps, mr.varPct)
             choices    == StrategyChoices(driver, strategies, mr.low)
             choice     == IF mr.pick \in choices THEN mr.pick
                           ELSE CHOOSE i \in choices : \A j \in choices : i <= j
             noised     == ApplyWindowNoise(strategies[choice], mr.noise, 1)
         IN  [stints |-> [noised EXCEPT ![Len(noised)].endLap = totalLaps],
              currentStintIndex |-> 0]

-----------------------------------------------------------------------------
(* WeatherSystem *)

WeatherOf(rain) ==
    IF rain > 50 THEN "heavy-rain" ELSE IF rain > 5 THEN "light-rain" ELSE "dry"

\* the node appendForecastNode pushes; cloud is the clamped newCloud the
\* sine mix and the rng phase produce
ForecastNode(timeOffset, cloud) ==
    [timeOffset |-> timeOffset, cloudCover |-> cloud,
     rainIntensity |-> IF cloud > 70 THEN ((cloud - 70) * (cloud - 70)) \div 9 ELSE 0]

AppendForecastNode(forecast, timeOffset, cloud) ==
    Append(forecast, ForecastNode(timeOffset, cloud))

GenerateInitialForecast(cloud, rain, fcloud) ==
    << [timeOffset |-> 0, cloudCover |-> cloud, rainIntensity |-> rain] >>
    \o [i \in 1..15 |-> ForecastNode(i * 120, fcloud)]

RECURSIVE DropPastNodes(_, _)
DropPastNodes(forecast, now) ==
    IF Len(forecast) > 1 /\ forecast[2].timeOffset <= now
    THEN DropPastNodes(Tail(forecast), now)
    ELSE forecast

\* water depth in 1/36000 mm, so that 100 % rain accumulates 100 per second
UpdateWaterDepth(e, dt) ==
    LET rain  == e.rainIntensityLevel
        evap  == IF rain < 5 THEN 5 * 4 ELSE 5
        delta == IF rain > 0 THEN rain - 20 ELSE -(20 + evap)
    IN  [e EXCEPT !.trackWaterDepth = Max(0, e.trackWaterDepth + delta * dt)]

\* the pair of nodes WeatherSystem.update interpolates between at time now:
\* the first segment that holds now, else the first and the last node
Segment(fc, now) ==
    LET hits == {i \in 1..(Len(fc) - 1) :
                    fc[i].timeOffset <= now /\ fc[i+1].timeOffset > now}
        i0   == IF hits = {} THEN 0 ELSE CHOOSE i \in hits : \A j \in hits : i <= j
    IN  [prevNode |-> IF i0 = 0 THEN fc[1] ELSE fc[i0],
         nextNode |-> IF i0 = 0 THEN fc[Len(fc)] ELSE fc[i0 + 1]]

\* WeatherSystem.update past its real-mode return: forecast management,
\* interpolation, temperatures, water depth, wind; fcloud is the cloud cover
\* of a node appended now
SimulatedWeather(e, dt, fcloud) ==
    LET timer   == e.forecastUpdateTimer + dt
        refresh == timer > 60
        kept    == IF refresh THEN DropPastNodes(e.weatherForecast, e.elapsedTime)
                   ELSE e.weatherForecast
        lastN   == kept[Len(kept)]
        fc      == IF refresh /\ lastN.timeOffset < e.elapsedTime + 1800
                   THEN AppendForecastNode(kept, lastN.timeOffset + 120, fcloud)
                   ELSE kept
        now     == e.elapsedTime
        prev    == Segment(fc, now).prevNode
        next    == Segment(fc, now).nextNode
        span    == next.timeOffset - prev.timeOffset
        Lerp(a, b) == IF span > 0 THEN a + Scale(b - a, now - prev.timeOffset, span) ELSE a
        rain    == Lerp(prev.rainIntensity, next.rainIntensity)
        e1      == [e EXCEPT !.forecastUpdateTimer = IF refresh THEN 0 ELSE timer,
                             !.weatherForecast = fc,
                             !.cloudCover = Lerp(prev.cloudCover, next.cloudCover),
                             !.rainIntensityLevel = rain,
                             !.weather = WeatherOf(rain)]
        air     == 100 * BaseTemperature - 5 * rain - 3 * e1.cloudCover
        e2      == [e1 EXCEPT !.airTemp = air,
                              !.trackTemp = IF rain > 5 THEN air + 100
                                            ELSE air + 1500 - 15 * e1.cloudCover]
        e3      == UpdateWaterDepth(e2, dt)
        turned  == e3.windDirection + WindTurn * dt
    IN  [e3 EXCEPT !.windDirection = IF turned < 0 THEN turned + 3600
                                    ELSE IF turned > 3600 THEN turned - 3600 ELSE turned,
                   !.windSpeed = Max(0, @ + WindDrift * dt)]

\* WeatherSystem.update
WeatherUpdateAnyMode(e, dt, fcloud) == SimulatedWeather(e, dt, fcloud)
WeatherUpdate(e, dt, fcloud) ==
    IF e.weatherMode = "real" THEN UpdateWaterDepth(e, dt)
    ELSE SimulatedWeather(e, dt, fcloud)

\* the payloads of setRealWeatherData: precipitation in 1/10 mm/h; the
\* temperature of a payload is the one that keeps the track at 25 C
WeatherPayloads ==
    {[cloudCover |-> 20, precipitation |-> 0, temp |-> 1500,
      windSpeed |-> 30, windDirection |-> 900],
     [cloudCover |-> 90, precipitation |-> 40, temp |-> 2300,
      windSpeed |-> 120, windDirection |-> 2700]}

\* WeatherSystem.setRealWeatherData
SetRealWeatherDataUnguarded(e, data) ==
    LET rain == IF data.precipitation > 0 THEN Min(100, 2 * data.precipitation) ELSE 0
    IN  [e EXCEPT !.cloudCover = data.cloudCover, !.windSpeed = data.windSpeed,
                  !.windDirection = data.windDirection, !.airTemp = data.temp,
                  !.trackTemp = data.temp + (IF data.cloudCover < 50 THEN 1000 ELSE 200),
                  !.rainIntensityLevel = rain, !.weather = WeatherOf(rain)]
SetRealWeatherData(e, data) ==
    IF e.weatherMode # "real" THEN e
    ELSE LET rain == IF data.precipitation > 0 THEN Min(100, 2 * data.precipitation) ELSE 0
         IN  [e EXCEPT !.cloudCover = data.cloudCover, !.windSpeed = data.windSpeed,
                       !.windDirection = data.windDirection, !.airTemp = data.temp,
                       !.trackTemp = data.temp + (IF data.cloudCover < 50 THEN 1000 ELSE 200),
                       !.rainIntensityLevel = rain, !.weather = WeatherOf(rain)]

-----------------------------------------------------------------------------
(* RaceLogicSystem.initializeRace and the SimulationEngine constructor *)

NoPit == [active |-> FALSE, timeLeft |-> 0, totalDuration |-> 0, stopDuration |-> 0,
          laneTime |-> 0, entryDist |-> 0, laneTrackDist |-> 0]

\* index is 0-based as in the code
InitialVehicle(driver, index, condition, plan) ==
    [distanceOnLap |-> TrackLen - ((index + 1) * 16),
     totalDistance |-> -((index + 1) * 16),
     speed |-> 0, lapCount |-> 0, currentSector |-> 3,
     isInPit |-> FALSE, pitStopCount |-> 0, boxThisLap |-> FALSE,
     tyreCompound |-> plan.stints[1].compound,
     tyreWear |-> 0, tyreAgeLaps |-> 0, fuelLoad |-> FuelFull,
     ersLevel |-> Full, ersMode |-> "balanced", paceMode |-> "balanced",
     condition |-> condition, damage |-> 0,
     morale |-> DRIVERS[driver].morale * Res, concentration |-> Full,
     drsOpen |-> FALSE, inDirtyAir |-> FALSE, isBattling |-> FALSE, blueFlag |-> FALSE,
     gapToAhead |-> GapZero, position |-> index + 1, lastPosition |-> index + 1,
     hasFinished |-> FALSE, strategyPlan |-> plan]

\* seeded: [order, condition, cloudDraw, fcloud];  mr: per driver Math.random
\* draws;  totalLaps: track.totalLaps of the track the engine is built with
InitializeRace(seeded, mr, totalLaps) ==
    LET cloud == Scale(seeded.cloudDraw, 6, 10) + Scale(RainProbability, 4, 10)
        rain  == IF cloud > 70 THEN Scale(cloud - 70, 100, 30) ELSE 0
        IndexOf(d) == CHOOSE i \in 1..NumVehicles : seeded.order[i] = d
    IN  [status |-> "pre-race", elapsedTime |-> 0, currentLap |-> 1, totalLaps |-> totalLaps,
         weather |-> WeatherOf(rain), weatherMode |-> "simulation",
         weatherForecast |-> GenerateInitialForecast(cloud, rain, seeded.fcloud),
         cloudCover |-> cloud, rainIntensityLevel |-> rain, trackWaterDepth |-> 0,
         windSpeed |-> WindSpeedDraw, windDirection |-> WindDirectionDraw,
         trackTemp |-> 2500, airTemp |-> 2000,
         safetyCar |-> "none", checkeredFlag |-> FALSE, winnerId |-> "none",
         vehicles |-> seeded.order,
         veh |-> [d \in Drivers |->
                    InitialVehicle(d, IndexOf(d) - 1, seeded.condition[d],
                                   InitializeStrategy(d, Abrasion, totalLaps, rain, mr[d]))],
         safetyCarTimer |-> 0,
         pitStates |-> [d \in Drivers |-> NoPit],
         forecastUpdateTimer |-> 0]

\* the qualifying sort: every grid order the lap-time draws can produce
QualifyingOrders == {o \in [1..NumVehicles -> Drivers] : \A i, j \in 1..NumVehicles : o[i] = o[j] => i = j}
ConditionDraws == {990, 1010}          \* rng.range(0.99, 1.01), in 1/1000
\* the day-form draws of the field: the two drivers on opposite ends
Conditions == {c \in [Drivers -> ConditionDraws] : c["ver"] > c["per"]}
CloudDraws == {0, 95}                  \* rng.range(0, 100)
ForecastClouds == {30, 95}             \* clamped newCloud of appendForecastNode
SeededInit ==
    [order : QualifyingOrders, condition : Conditions,
     cloudDraw : CloudDraws, fcloud : ForecastClouds]
MathRandomInit ==
    [varPct : {100}, low : {TRUE}, pick : {1}, noise : {<<-2, 0>>, <<2, 0>>}]

-----------------------------------------------------------------------------
(* RaceLogicSystem: safety car, incidents *)

Active(v) == v.damage < 100 /\ ~v.hasFinished

\* a stable insertion sort of a sequence of driver ids; before[a, b] is true
\* when the comparator is negative for (a, b)
RECURSIVE InsertSorted(_, _, _)
InsertSorted(seq, x, before) ==
    IF seq = << >> THEN << x >>
    ELSE IF before[x, seq[1]] THEN << x >> \o seq
    ELSE << seq[1] >> \o InsertSorted(Tail(seq), x, before)
RECURSIVE StableSort(_, _)
StableSort(seq, before) ==
    IF seq = << >> THEN << >>
    ELSE InsertSorted(StableSort(SubSeq(seq, 1, Len(seq) - 1), before), seq[Len(seq)], before)

\* the active vehicles ids in the order performRedFlagRestart lines them up
RestartOrderReversed(e, ids) ==
    StableSort(ids, [a, b \in Drivers |-> e.veh[a].position > e.veh[b].position])
RestartOrder(e, ids) ==
    StableSort(ids, [a, b \in Drivers |-> e.veh[a].position < e.veh[b].position])

PerformRedFlagRestartInPlace(e) ==
    [e EXCEPT !.veh = [d \in Drivers |->
        IF Active(e.veh[d])
        THEN [e.veh[d] EXCEPT !.speed = 0, !.gapToAhead = GapZero,
                              !.isBattling = FALSE, !.inDirtyAir = FALSE,
                              !.blueFlag = FALSE]
        ELSE e.veh[d]]]
PerformRedFlagRestart(e) ==
    LET ids    == SelectSeq(e.vehicles, LAMBDA d : Active(e.veh[d]))
        active == RestartOrder(e, ids)
        IndexOf(d) == CHOOSE i \in 1..Len(active) : active[i] = d
        Regrid(d) ==
            LET index == IndexOf(d) - 1
                dist  == (TrackLen - 50) - (index * 16)
            IN  [e.veh[d] EXCEPT
                   !.distanceOnLap = IF dist < 0 THEN dist + TrackLen ELSE dist,
                   !.lapCount = IF index = 0 THEN @ ELSE e.veh[active[1]].lapCount,
                   !.speed = 0, !.gapToAhead = GapZero,
                   !.isBattling = FALSE, !.inDirtyAir = FALSE, !.blueFlag = FALSE]
    IN  [e EXCEPT !.veh = [d \in Drivers |->
                             IF Active(e.veh[d]) THEN Regrid(d) ELSE e.veh[d]]]

UpdateSafetyCarStrict(e, dt) ==
    IF e.safetyCar = "none" THEN e
    ELSE IF e.safetyCarTimer - dt < 0
         THEN [(IF e.safetyCar = "red-flag" THEN PerformRedFlagRestart(e) ELSE e)
                  EXCEPT !.safetyCar = "none", !.safetyCarTimer = 0]
         ELSE [e EXCEPT !.safetyCarTimer = e.safetyCarTimer - dt]
UpdateSafetyCar(e, dt) ==
    IF e.safetyCar = "none" THEN e
    ELSE IF e.safetyCarTimer - dt <= 0
         THEN [(IF e.safetyCar = "red-flag" THEN PerformRedFlagRestart(e) ELSE e)
                  EXCEPT !.safetyCar = "none", !.safetyCarTimer = 0]
         ELSE [e EXCEPT !.safetyCarTimer = e.safetyCarTimer - dt]

\* the severity score of an incident of v, chaos being rng.range(0, 30)
SeverityScore(v, chaos) ==
    (IF v.speed > 60 THEN 40 ELSE 0) + (IF v.speed > 80 THEN 20 ELSE 0)
    + (IF Sectors[v.currentSector].type = "corner_high_speed" THEN 30 ELSE 0)
    + (IF Sectors[v.currentSector].type = "straight" THEN 10 ELSE 0)
    + chaos

NoIncident == [d |-> "none", chaos |-> 0, dnf |-> FALSE, dmg |-> 0]
SeverityDraws == {0, 15, 29}     \* rng.range(0, 30)
ScDamageDraws == {30, 59}        \* rng.range(30, 60)
VscDamageDraws == {5, 19}        \* rng.range(5, 20)

CheckIncidentsGuardAnyFlag(e) == e.status = "racing" /\ e.currentLap >= 2
CheckIncidentsGuard(e) ==
    e.safetyCar = "none" /\ e.status = "racing" /\ e.currentLap >= 2

\* inc names the first vehicle whose rng.chance(risk) draw succeeds, and the
\* draws that follow; the risk is positive exactly when dt > 0
CheckIncidents(e, dt, inc) ==
    IF ~CheckIncidentsGuard(e) \/ inc.d = "none" \/ dt = 0 THEN e
    ELSE
    LET v     == e.veh[inc.d]
        score == SeverityScore(v, inc.chaos)
    IN  IF score > 80
        THEN [e EXCEPT !.safetyCar = "red-flag", !.safetyCarTimer = RedFlagTime,
                       !.veh[inc.d].damage = 100, !.veh[inc.d].speed = 0]
        ELSE IF score > 50
        THEN IF inc.dnf
             THEN [e EXCEPT !.safetyCar = "sc", !.safetyCarTimer = ScTime,
                            !.veh[inc.d].damage = 100, !.veh[inc.d].speed = 0]
             ELSE [e EXCEPT !.safetyCar = "sc", !.safetyCarTimer = ScTime,
                            !.veh[inc.d].damage = v.damage + inc.dmg]
        ELSE [e EXCEPT !.safetyCar = "vsc", !.safetyCarTimer = VscTime,
                       !.veh[inc.d].damage = v.damage + inc.dmg,
                       !.veh[inc.d].speed = Scale(v.speed, 3, 10)]

\* the incident draws CheckIncidents can meet in state e
IncidentChoices(e, dt) ==
    {NoIncident} \cup
    IF ~CheckIncidentsGuard(e) \/ dt = 0 THEN {}
    ELSE UNION { UNION {
            LET score == SeverityScore(e.veh[d], ch)
            IN  IF score > 80 THEN {[d |-> d, chaos |-> ch, dnf |-> TRUE, dmg |-> 0]}
                ELSE IF score > 50
                THEN {[d |-> d, chaos |-> ch, dnf |-> TRUE, dmg |-> 0]}
                     \cup {[d |-> d, chaos |-> ch, dnf |-> FALSE, dmg |-> x] : x \in ScDamageDraws}
                ELSE {[d |-> d, chaos |-> ch, dnf |-> FALSE, dmg |-> x] : x \in VscDamageDraws}
            : ch \in SeverityDraws }
         : d \in {x \in Drivers : Active(e.veh[x])} }

-----------------------------------------------------------------------------
(* StrategySystem.getPitCompound and RaceLogicSystem.handlePitStopLogic *)

GetPitCompoundOfStint(v, e, totalLaps) ==
    LET plan == v.strategyPlan
    IN  IF e.rainIntensityLevel > 60 THEN "wet"
        ELSE IF e.rainIntensityLevel > 10 THEN "intermediate"
        ELSE plan.stints[Min(plan.currentStintIndex + 1, Len(plan.stints))].compound
GetPitCompound(v, e, totalLaps) ==
    LET rain == e.rainIntensityLevel
        plan == v.strategyPlan
        nextStintIndex == plan.currentStintIndex + 1
        lapsLeft == totalLaps - e.currentLap
    IN  IF rain > 60 THEN "wet"
        ELSE IF rain > 10 THEN "intermediate"
        ELSE IF nextStintIndex < Len(plan.stints) THEN plan.stints[nextStintIndex + 1].compound
        ELSE IF lapsLeft < 15 THEN "soft"
        ELSE IF lapsLeft < 30 THEN "medium" ELSE "hard"

StopDraws == {2, 4}    \* rng.range(2.0, 2.8), and rng.range(4, 10) after an error

\* the pit state created on the first tick in the pit lane
NewPitState(track, v, stop) ==
    LET stopDuration == stop + (IF v.damage > 10 THEN 10 ELSE 0)
        entryDist == track.pitLane.entryDistance
        exitDist  == track.pitLane.exitDistance
        laneTrackDist == IF exitDist < entryDist
                         THEN (track.totalDistance - entryDist) + exitDist
                         ELSE exitDist - entryDist
        laneTime  == IF track.pitLane.stopTime < 5 THEN 5 ELSE track.pitLane.stopTime
    IN  [active |-> TRUE, timeLeft |-> laneTime + stopDuration,
         totalDuration |-> laneTime + stopDuration, stopDuration |-> stopDuration,
         laneTime |-> laneTime, entryDist |-> entryDist, laneTrackDist |-> laneTrackDist]

\* lines 525-532: the service of the car at the release
ServiceCarKeepAge(v, compound) ==
    [v EXCEPT !.tyreCompound = compound, !.strategyPlan.currentStintIndex = @ + 1,
              !.tyreWear = 0, !.damage = 0]
ServiceCar(v, compound) ==
    [v EXCEPT !.tyreCompound = compound, !.strategyPlan.currentStintIndex = @ + 1,
              !.tyreWear = 0, !.tyreAgeLaps = 0, !.damage = 0]

HandlePitStopLogic(track, e, d, dt, stop) ==
    LET v == e.veh[d] IN
    IF ~v.isInPit THEN e
    ELSE
    LET ps0 == IF e.pitStates[d].active THEN e.pitStates[d] ELSE NewPitState(track, v, stop)
        ps  == [ps0 EXCEPT !.timeLeft = @ - dt]
        timeElapsed == ps.totalDuration - ps.timeLeft
        driving1 == 2 * timeElapsed < ps.laneTime
        stopped  == ~driving1 /\ 2 * timeElapsed < ps.laneTime + 2 * ps.stopDuration
        progressDist ==
            IF driving1 THEN Scale(timeElapsed, ps.laneTrackDist, ps.laneTime)
            ELSE IF stopped THEN ps.laneTrackDist \div 2
            ELSE Scale(timeElapsed - ps.stopDuration, ps.laneTrackDist, ps.laneTime)
        speed   == IF stopped THEN 0 ELSE track.pitLane.speedLimit
        rawPos  == ps.entryDist + progressDist
        targetPos == IF rawPos >= track.totalDistance THEN rawPos - track.totalDistance
                     ELSE rawPos
        wrap    == 10 * v.distanceOnLap > 9 * track.totalDistance
                   /\ 10 * targetPos < track.totalDistance
        v1 == [v EXCEPT !.speed = speed, !.distanceOnLap = targetPos,
                        !.lapCount = IF wrap THEN @ + 1 ELSE @,
                        !.tyreAgeLaps = IF wrap THEN @ + 1 ELSE @,
                        !.totalDistance = IF speed > 0 THEN @ + speed * dt ELSE @]
        e1 == [e EXCEPT !.currentLap = IF wrap /\ v.position = 1 THEN v1.lapCount ELSE @]
    IN  IF ps.timeLeft <= 0
        THEN [e1 EXCEPT
                !.pitStates[d] = NoPit,
                !.veh[d] = ServiceCar(
                    [v1 EXCEPT !.isInPit = FALSE,
                               !.distanceOnLap = track.pitLane.exitDistance,
                               !.boxThisLap = FALSE, !.pitStopCount = @ + 1],
                    GetPitCompound(v1, e1, e.totalLaps))]
        ELSE [e1 EXCEPT !.pitStates[d] = ps, !.veh[d] = v1]

-----------------------------------------------------------------------------
(* RaceLogicSystem: DRS, overtaking, positions, morale, spatial awareness *)

UpdateDRSAnyWeather(e, d) ==
    LET v == e.veh[d]
        inZone == \E zone \in DrsZones :
                     v.distanceOnLap >= zone.activationDistance
                     /\ v.distanceOnLap <= zone.endDistance
    IN  IF e.currentLap < 3 \/ e.safetyCar # "none"
        THEN [e EXCEPT !.veh[d].drsOpen = FALSE]
        ELSE IF inZone
             THEN IF v.position > 1 /\ GapLt(v.gapToAhead, 1, 1)
                  THEN [e EXCEPT !.veh[d].drsOpen = TRUE] ELSE e
             ELSE [e EXCEPT !.veh[d].drsOpen = FALSE]
UpdateDRS(e, d) ==
    LET v == e.veh[d]
        inZone == \E zone \in DrsZones :
                     v.distanceOnLap >= zone.activationDistance
                     /\ v.distanceOnLap <= zone.endDistance
    IN  IF e.currentLap < 3 \/ e.weather # "dry" \/ e.safetyCar # "none"
        THEN [e EXCEPT !.veh[d].drsOpen = FALSE]
        ELSE IF inZone
             THEN IF v.position > 1 /\ GapLt(v.gapToAhead, 1, 1)
                  THEN [e EXCEPT !.veh[d].drsOpen = TRUE] ELSE e
             ELSE [e EXCEPT !.veh[d].drsOpen = FALSE]

OvertakeDraws == {"defended", "pass", "checked"}

\* the attempt is resolved only past these guards
OvertakeGuardAnyGap(e, d) ==
    /\ e.veh[d].isBattling /\ e.veh[d].position # 1
    /\ \E x \in Drivers : e.veh[x].position = e.veh[d].position - 1
OvertakeGuard(e, d) ==
    LET attacker == e.veh[d]
    IN  /\ attacker.isBattling /\ attacker.position # 1
        /\ \E x \in Drivers : e.veh[x].position = attacker.position - 1
        /\ ~GapGt(attacker.gapToAhead, 2, 10)

\* ot is the outcome of the rng.chance draws: the pass (frameProb is in
\* (0, 0.1), so both outcomes exist), or the 10 % check-up after a defence
AttemptOvertake(e, d, ot) ==
    LET attacker == e.veh[d]
    IN  IF ~OvertakeGuard(e, d) THEN e
        ELSE IF ot = "pass"
             THEN [e EXCEPT !.veh[d].speed = attacker.speed + 5,
                            !.veh[d].isBattling = FALSE]
        ELSE IF ot = "checked"
             THEN [e EXCEPT !.veh[d].speed = Scale(attacker.speed, 95, 100)]
        ELSE e

\* line 546: the position of the vehicle at array index i (0-based)
PositionAtZeroBased(i) == i
PositionAt(i) == i + 1

UpdatePositions(e) ==
    LET sorted == StableSort(e.vehicles,
                     [a, b \in Drivers |->
                        IF e.veh[a].lapCount # e.veh[b].lapCount
                        THEN e.veh[a].lapCount > e.veh[b].lapCount
                        ELSE e.veh[a].distanceOnLap > e.veh[b].distanceOnLap])
        IndexOf(d) == CHOOSE i \in 1..Len(sorted) : sorted[i] = d
        RaceDist(d) == e.veh[d].lapCount * TrackLen + e.veh[d].distanceOnLap
        Ranked(d) ==
            LET v == e.veh[d]
                i == PositionAt(IndexOf(d) - 1)
                gained == i < v.position
                lost   == i > v.position
            IN  [v EXCEPT
                   !.lastPosition = v.position,
                   !.position = i,
                   !.morale = IF gained THEN Min(Full, @ + 10 * Res)
                              ELSE IF lost THEN Max(0, @ - 10 * Res) ELSE @,
                   !.concentration = IF gained THEN Max(0, @ - 5 * Res)
                                     ELSE IF lost THEN Max(0, @ - 10 * Res) ELSE @,
                   !.gapToAhead = IF IndexOf(d) = 1 THEN GapZero
                                  ELSE Gap(RaceDist(sorted[IndexOf(d) - 1]) - RaceDist(d),
                                           Max(v.speed, 20))]
    IN  [e EXCEPT !.vehicles = sorted, !.veh = [d \in Drivers |-> Ranked(d)]]

UpdateMoraleAndConcentration(e, dt) ==
    LET Upd(v) ==
            LET m1 == v.morale + Scale((80 * Res - v.morale) * dt, 1, 100)
                m2 == IF v.inDirtyAir THEN m1 - Scale(5 * Res * dt, 1, 10) ELSE m1
                m3 == IF GapLt(v.gapToAhead, 5, 10) /\ v.position > 1
                      THEN m2 + Scale(2 * Res * dt, 1, 10) ELSE m2
                r0 == IF e.currentLap = 1 /\ v.currentSector = 1
                      THEN -(10 * Res * dt) ELSE 5 * Res * dt
                r1 == IF v.isBattling THEN r0 - 2 * Res * dt ELSE r0
                r2 == IF v.inDirtyAir THEN r1 - Res * dt ELSE r1
            IN  [v EXCEPT !.morale = Clamp(0, Full, m3),
                          !.concentration = Clamp(0, Full, v.concentration + r2)]
    IN  [e EXCEPT !.veh = [d \in Drivers |-> Upd(e.veh[d])]]

UpdateSpatialAwareness(e) ==
    LET sortedByLocation ==
            StableSort(e.vehicles,
               [a, b \in Drivers |-> e.veh[a].distanceOnLap > e.veh[b].distanceOnLap])
        n == Len(sortedByLocation)
        IndexOf(d) == CHOOSE i \in 1..n : sortedByLocation[i] = d
        Aware(d) ==
            LET v      == e.veh[d]
                index  == IndexOf(d)
                ahead  == e.veh[sortedByLocation[IF index = 1 THEN n ELSE index - 1]]
                behind == e.veh[sortedByLocation[IF index = n THEN 1 ELSE index + 1]]
                physicalDistGap == IF index = 1
                                   THEN (TrackLen - v.distanceOnLap) + ahead.distanceOnLap
                                   ELSE ahead.distanceOnLap - v.distanceOnLap
                physicalTimeGap == Gap(physicalDistGap, Max(10, v.speed))
                gapFromBehind == IF index = n
                                 THEN (TrackLen - behind.distanceOnLap) + v.distanceOnLap
                                 ELSE v.distanceOnLap - behind.distanceOnLap
                gapTimeFromBehind == Gap(gapFromBehind, Max(10, behind.speed))
            IN  [v EXCEPT !.inDirtyAir = GapLt(physicalTimeGap, 15, 10),
                          !.isBattling = GapLt(physicalTimeGap, 4, 10),
                          !.blueFlag = GapLt(gapTimeFromBehind, 12, 10)
                                       /\ behind.lapCount > v.lapCount]
    IN  [e EXCEPT !.veh = [d \in Drivers |-> Aware(d)]]

\* vehicles.find(v => v.position === 1): the first such vehicle in array order
IndexLeader(e, leaders) ==
    CHOOSE i \in 1..Len(e.vehicles) :
        /\ e.vehicles[i] \in leaders
        /\ \A j \in 1..(i - 1) : e.vehicles[j] \notin leaders

\* line 775: the leader is looked at only while the flag is down
FlagPendingAlways(e) == TRUE
FlagPending(e) == ~e.checkeredFlag

\* line 786: the vehicles that have to finish
StillRunningAny(v) == TRUE
StillRunning(v) == v.damage < 100

CheckRaceFinish(e) ==
    LET leaders == {d \in Drivers : e.veh[d].position = 1}
        flag    == FlagPending(e) /\ \E d \in leaders : e.veh[d].lapCount >= e.totalLaps
        leader  == CHOOSE d \in leaders : e.vehicles[IndexLeader(e, leaders)] = d
        e1 == IF flag
              THEN [e EXCEPT !.checkeredFlag = TRUE, !.winnerId = leader,
                             !.veh[leader].hasFinished = TRUE]
              ELSE e
        allFinished == \A d \in Drivers : StillRunning(e1.veh[d]) => e1.veh[d].hasFinished
    IN  IF e1.checkeredFlag /\ allFinished THEN [e1 EXCEPT !.status = "finished"] ELSE e1

\* lines 785-789: what the second step of checkRaceFinish tests, in the state
\* e the race-logic phase leaves
FinishDue(e) ==
    e.checkeredFlag /\ \A d \in Drivers : e.veh[d].damage < 100 => e.veh[d].hasFinished

-----------------------------------------------------------------------------
(* StrategySystem.updateStrategyAI *)

IsSlick(compound) == compound \in Slicks

CheckForecast(e, currentCompound, currentRain) ==
    LET idx == {i \in 1..Len(e.weatherForecast) :
                   /\ e.weatherForecast[i].timeOffset > e.elapsedTime
                   /\ e.weatherForecast[i].timeOffset < e.elapsedTime + 300}
        RECURSIVE Sum(_)
        Sum(S) == IF S = {} THEN 0
                  ELSE LET i == CHOOSE x \in S : TRUE
                       IN  e.weatherForecast[i].rainIntensity + Sum(S \ {i})
        count == Cardinality(idx)
        \* avgFutureRain > k, as futureRain > k * count
        AvgGt(k) == IF count > 0 THEN Sum(idx) > k * count ELSE currentRain > k
        futureIdeal == IF AvgGt(60) THEN "wet"
                       ELSE IF AvgGt(10) THEN "intermediate" ELSE "slick"
        currentType == IF IsSlick(currentCompound) THEN "slick" ELSE currentCompound
    IN  IF currentType = futureIdeal
        THEN IF currentType = "slick" /\ currentRain > 40 THEN "pit" ELSE "stay_out"
        ELSE "neutral"

\* the early returns of updateStrategyAI
StrategyWindow(e, d) ==
    LET v == e.veh[d]
        d0 == PitLane.entryDistance - v.distanceOnLap
        distToEntry == IF 2 * d0 < -TrackLen THEN d0 + TrackLen ELSE d0
    IN  ~(distToEntry > 1000 \/ distToEntry < 50) /\ ~(v.isInPit \/ v.boxThisLap)

\* pitNeeded after the emergency checks (weather, forecast, damage, wear)
EmergencyPitNoForecast(e, d) ==
    LET v == e.veh[d]
        rain == e.rainIntensityLevel
        compound == v.tyreCompound
        weatherPit == IF rain > 60 THEN compound # "wet"
                      ELSE IF rain > 10 THEN compound \notin {"intermediate", "wet"}
                      ELSE compound \in {"intermediate", "wet"}
    IN  weatherPit \/ v.damage > 15 \/ v.tyreWear > 85 * 1000
EmergencyPit(e, d) ==
    LET v == e.veh[d]
        rain == e.rainIntensityLevel
        compound == v.tyreCompound
        weatherPit == IF rain > 60 THEN compound # "wet"
                      ELSE IF rain > 10 THEN compound \notin {"intermediate", "wet"}
                      ELSE compound \in {"intermediate", "wet"}
        kept == weatherPit /\ CheckForecast(e, compound, rain) # "stay_out"
    IN  kept \/ v.damage > 15 \/ v.tyreWear > 85 * 1000

\* the in-window branch, where the two Math.random() draws are made
StrategyRolls(e, d) ==
    LET v == e.veh[d]
        plan == v.strategyPlan
        targetLap == plan.stints[plan.currentStintIndex + 1].endLap
    IN  /\ StrategyWindow(e, d) /\ ~EmergencyPit(e, d)
        /\ plan.currentStintIndex + 1 <= Len(plan.stints)
        /\ ~(plan.currentStintIndex >= Len(plan.stints) - 1)
        /\ ~(e.currentLap > targetLap + 2)
        /\ e.currentLap >= targetLap - 2

NoRoll == [undercut |-> FALSE, roll |-> 99]
RollDraws == {0, 99}     \* Math.random(), in percent

\* sr: the Math.random() draws [undercut: the draw is < 0.3, roll]
UpdateStrategyAI(e, d, sr) ==
    IF ~StrategyWindow(e, d) THEN e
    ELSE
    LET v == e.veh[d]
        plan == v.strategyPlan
        hasStint == plan.currentStintIndex + 1 <= Len(plan.stints)
        targetLap == plan.stints[plan.currentStintIndex + 1].endLap
        isLastStint == plan.currentStintIndex >= Len(plan.stints) - 1
        base == IF e.currentLap = targetLap THEN 50
                ELSE IF e.currentLap > targetLap THEN 80 ELSE 20
        pitProb == base
                   + (IF DRIVERS[d].aggression > 60 /\ sr.undercut THEN 30 ELSE 0)
                   + (IF v.tyreWear > 60 * 1000 THEN 40 ELSE 0)
        planPit == /\ ~isLastStint
                   /\ \/ e.currentLap > targetLap + 2
                      \/ e.currentLap >= targetLap - 2 /\ sr.roll < pitProb
        pitNeeded == \/ EmergencyPit(e, d)
                     \/ hasStint /\ (planPit \/ v.tyreWear > 80 * 1000)
    IN  IF pitNeeded THEN [e EXCEPT !.veh[d].boxThisLap = TRUE] ELSE e

-----------------------------------------------------------------------------
(* PhysicsSystem *)

\* grip in 1/1000 for a water depth in 1/36000 mm, by the first-order
\* expansion of the curves at 0 mm (the depth stays below 0.2 mm)
CalculateGrip(compound, waterDepth, speed) ==
    LET baseGrip == IF IsSlick(compound) THEN 1000 - waterDepth \div 18
                    ELSE IF compound = "intermediate" THEN 490 + waterDepth \div 110
                    ELSE 700 + waterDepth \div 180
    IN  Max(100, baseGrip)

\* attackIntensity = 1 / (1 + exp(-z)) in percent, z in 1/100, tabulated
\* on the integer part of z
Sigmoid(z) ==
    IF z < -300 THEN 2 ELSE IF z < -200 THEN 7 ELSE IF z < -100 THEN 18
    ELSE IF z < 0 THEN 38 ELSE IF z < 100 THEN 62 ELSE IF z < 200 THEN 82
    ELSE IF z < 300 THEN 93 ELSE 98

NoiseDraws == {-1, 0, 1}    \* rng.range(-r, r): an end of the range or its middle

\* target speed in cm/s; noise is the per-tick draw
CalculateTargetSpeed(e, d, noise) ==
    IF e.safetyCar = "red-flag" THEN 0
    ELSE
    LET v  == e.veh[d]
        dr == DRIVERS[d]
        type == Sectors[v.currentSector].type
        s0 == CASE type = "straight" -> 10500
                [] type = "corner_high_speed" -> 7200
                [] type = "corner_medium_speed" -> 5000
                [] OTHER -> 2500
        \* wake: gap = max(0.1, gapToAhead), in 1/100 s
        gc  == Max(10, Scale(v.gapToAhead.n, 100, v.gapToAhead.d))
        pb  == CASE type = "corner_high_speed" -> 5
                 [] type = "corner_medium_speed" -> 3
                 [] OTHER -> 1
        \* battling
        aheads == {x \in Drivers : e.veh[x].position = v.position - 1}
        ahead  == e.veh[CHOOSE x \in aheads : TRUE]
        z      == (v.speed - ahead.speed) * 100
                  + Scale(dr.aggression, 25, 10) + Scale(dr.racecraft, 15, 10) - 300
        ai     == Sigmoid(z)
        stuckSpeed == IF v.speed > ahead.speed THEN ahead.speed * 98 ELSE ahead.speed * 100
        vr0 == (130 - dr.consistency) * 50      \* varianceRange, in 1/100000
        vr1 == IF type = "corner_low_speed" THEN vr0 * 3 ELSE vr0
        vr  == IF e.safetyCar # "none" THEN vr1 \div 10 ELSE vr1
        gapMs == GapMs(v.gapToAhead)
        scTarget == IF v.position # 1
                    THEN IF GapGt(v.gapToAhead, 5, 10)
                         THEN 3500 + Scale(2100, Min(gapMs, 5000), 5000)
                         ELSE IF GapLt(v.gapToAhead, 3, 10) THEN 2800 ELSE 3500
                    ELSE 3500
    IN  With(Scale(Scale(Scale(Scale(Scale(Scale(s0,
                100000 + (880 - dr.basePace) * 8, 100000),
                2000 * Res + (v.morale - 80 * Res), 2000 * Res),
                v.condition, 1000),
                10000 - 4 * (100 - dr.consistency), 10000),
                GetGripFactor(v.tyreCompound, v.tyreWear), 1000),
                100000 - 33 * (v.fuelLoad \div 1000), 100000), LAMBDA s6 :
        With(IF v.paceMode = "aggressive" THEN Scale(s6, 1015, 1000)
             ELSE IF v.paceMode = "conservative" THEN Scale(s6, 985, 1000) ELSE s6, LAMBDA s7 :
        With(IF v.ersMode = "deploy" THEN Scale(s7, 102, 100)
             ELSE IF v.ersMode = "harvest" THEN Scale(s7, 98, 100) ELSE s7, LAMBDA s8 :
        With(IF v.drsOpen THEN Scale(s8, 105, 100) ELSE s8, LAMBDA s9 :
        With(IF v.position > 1 /\ e.currentLap > 1
             THEN IF type = "straight"
                  THEN IF gc < 150 THEN Scale(s9, 3000 + (150 - gc), 3000) ELSE s9
                  ELSE IF gc < 200 THEN Scale(s9, 20000 - pb * (200 - gc), 20000) ELSE s9
             ELSE s9, LAMBDA s10 :
        With(IF v.isBattling /\ e.safetyCar = "none" /\ aheads # {}
             THEN With(IF type # "straight" THEN Scale(s10, 2000 - ai, 2000) ELSE s10,
                       LAMBDA freeSpeed :
                       IF freeSpeed > stuckSpeed
                       THEN Scale(stuckSpeed, 100 - ai, 100) + Scale(freeSpeed, ai, 100)
                       ELSE freeSpeed)
             ELSE s10, LAMBDA s11 :
        With(IF v.blueFlag
             THEN Scale(s11, 1000 - (dr.teamPlayer + (100 - dr.aggression)), 1000)
             ELSE s11, LAMBDA s12 :
        With(Scale(s12, 100000 + noise * vr, 100000), LAMBDA s13 :
             IF e.safetyCar = "vsc" THEN Min(Scale(s13, 7, 10), 4400)
             ELSE IF e.safetyCar = "sc" THEN Min(s13, scTarget)
             ELSE s13))))))))

\* acceleration in cm/s^2; gapMs is the effective gap in ms
CalculateMaxAcceleration(speed, drsOpen, gapMs, sectorType) ==
    LET thrustForce == Min(750000 \div Max(speed, 10), 10202)      \* N
        cda0 == IF drsOpen THEN 1200 ELSE 1600                     \* CdA in 1/1000 m^2
        maxSlipstream == IF drsOpen THEN 8 ELSE 15
        cda  == IF sectorType = "straight" /\ gapMs < 1000
                THEN Scale(cda0, 100000 - maxSlipstream * Max(0, 1000 - gapMs), 100000)
                ELSE cda0
        dragForce == (cda * speed * speed * 49) \div 800           \* 0.5 rho CdA v^2, in cN
    IN  Scale(thrustForce * 100 - dragForce, 1, 800) - 10

\* braking in cm/s^2
CalculateMaxBraking(speed) == 1500 + (speed * speed) \div 2

\* lines 199-221: the speed after one step, all in cm/s and cm/s^2
IntegrateSpeedNoFloor(speed, targetSpeed, accelRate, brakeRate, dt) ==
    LET s1 == IF speed < targetSpeed
              THEN Min(speed + accelRate * dt, targetSpeed)
              ELSE speed - brakeRate * dt
    IN  IF s1 > 15000 THEN 15000 ELSE s1
IntegrateSpeed(speed, targetSpeed, accelRate, brakeRate, dt) ==
    LET s1 == IF speed < targetSpeed
              THEN Min(speed + accelRate * dt, targetSpeed)
              ELSE Max(speed - brakeRate * dt, targetSpeed)
        s2 == IF s1 > 15000 THEN 15000 ELSE s1
    IN  IF s2 < 0 THEN 0 ELSE s2

\* line 774: tyre wear is capped at 100 %
CapWearMissing(wear) == wear
CapWear(wear) == IF wear > WearFull THEN WearFull ELSE wear

UpdateResourcesSkipped(v, dt) == v
UpdateResources(v, dt) ==
    LET wear == v.tyreWear + GetWearRate(v.tyreCompound, v.paceMode, v.tyreWear) * dt
        burn == IF v.paceMode = "aggressive" THEN Scale(16, 12, 10)
                ELSE IF v.paceMode = "conservative" THEN Scale(16, 8, 10) ELSE 16
        fuel == v.fuelLoad - burn * dt
        ers  == IF v.ersMode = "deploy" THEN v.ersLevel - 2 * Res * dt
                ELSE IF v.ersMode = "harvest" THEN v.ersLevel + Scale(15 * Res * dt, 1, 10)
                ELSE v.ersLevel + Scale(Res * dt, 1, 10)
    IN  [v EXCEPT !.tyreWear = CapWear(wear),
                  !.fuelLoad = IF fuel < 0 THEN 0 ELSE fuel,
                  !.ersLevel = IF ers < 0 THEN 0 ELSE IF ers > Full THEN Full ELSE ers,
                  !.ersMode  = IF ers < 0 THEN "balanced" ELSE @]

\* line 226: the odometer after the step
AdvanceOdometerWrapped(total, distDelta) ==
    IF total + distDelta >= TrackLen THEN total + distDelta - TrackLen ELSE total + distDelta
AdvanceOdometer(total, distDelta) == total + distDelta

\* lines 255-256: the lap position after the lap logic
LapDistanceNoWrap(dist) == dist
LapDistance(dist) == IF dist >= TrackLen THEN dist - TrackLen ELSE dist

NoPhysicsDraw == [noise |-> 0, chaos |-> 0, checkUp |-> FALSE]

\* the lap-1 chaos branch and its check-up
StartChaos(e, d) == e.currentLap = 1 /\ e.veh[d].distanceOnLap < 2000
CheckUpPossible(e, d) ==
    StartChaos(e, d) /\ e.veh[d].position > 1 /\ GapLt(e.veh[d].gapToAhead, 4, 10)

\* lines 241-251: the pit entry, taken in the window [entry, entry + 50 m)
PitEntryAnyCar(v, dist0) ==
    dist0 >= PitLane.entryDistance /\ dist0 < PitLane.entryDistance + 50
PitEntry(v, dist0) ==
    v.boxThisLap /\ dist0 >= PitLane.entryDistance
                 /\ dist0 < PitLane.entryDistance + 50

\* lines 223-292: the vehicle after it moved at the new speed (in m/s)
MoveVehicle(e, d, dt, speed) ==
    LET v == e.veh[d]
        dist0 == v.distanceOnLap + speed * dt
        enter == PitEntry(v, dist0)
        lap   == dist0 >= TrackLen
    IN  With(LapDistance(dist0), LAMBDA dist :
        With({i \in 1..Len(Sectors) :
                 dist >= Sectors[i].startDistance /\ dist < Sectors[i].endDistance},
             LAMBDA secs :
        With([v EXCEPT
                 !.speed = speed, !.distanceOnLap = dist,
                 !.totalDistance = AdvanceOdometer(@, speed * dt),
                 !.isInPit = enter,
                 !.lapCount = IF lap THEN @ + 1 ELSE @,
                 !.hasFinished = IF lap /\ e.checkeredFlag THEN TRUE ELSE @,
                 !.tyreAgeLaps = IF lap THEN @ + 1 ELSE @,
                 !.currentSector = IF secs # {} THEN CHOOSE i \in secs : \A j \in secs : i <= j
                                   ELSE @],
             LAMBDA v1 :
             [e EXCEPT !.currentLap = IF lap /\ v.position = 1 THEN v1.lapCount ELSE @,
                       !.veh[d] = UpdateResources(v1, dt)])))

\* ph: the seeded draws [noise, chaos, checkUp] of this vehicle's step
UpdateVehiclePhysics(e, d, dt, ph) ==
    LET v == e.veh[d] IN
    IF v.isInPit THEN e
    ELSE
    LET gripFactor == CalculateGrip(v.tyreCompound, e.trackWaterDepth, v.speed)
        instability == 2000 + Scale(Full - v.concentration, 10000, Full)
        type == Sectors[v.currentSector].type
        effectiveGap == IF v.position = 1 THEN 100000 ELSE GapMs(v.gapToAhead)
        accelRate == Scale(CalculateMaxAcceleration(v.speed, v.drsOpen, effectiveGap, type),
                           gripFactor, 1000)
        brakeRate == Max(100, Scale(CalculateMaxBraking(v.speed), gripFactor, 1000))
    IN  With(Scale(CalculateTargetSpeed(e, d, ph.noise), gripFactor, 1000), LAMBDA t0 :
        With(IF StartChaos(e, d)
             THEN IF CheckUpPossible(e, d) /\ ph.checkUp
                  THEN Scale(t0, 9, 10)
                  ELSE Scale(t0, 100000 + ph.chaos * instability, 100000)
             ELSE t0, LAMBDA targetSpeed :
        With(IntegrateSpeed(v.speed * 100, targetSpeed, accelRate, brakeRate, dt) \div 100,
             LAMBDA speed : MoveVehicle(e, d, dt, speed))))

-----------------------------------------------------------------------------
(* RaceLogicSystem.updateRaceLogic and SimulationEngine.update *)

\* the forEach of updateRaceLogic, from array index i on
RECURSIVE VehicleLogicLoop(_, _, _, _)
VehicleLogicLoop(e, i, dt, c) ==
    IF i > Len(e.vehicles) THEN e
    ELSE LET d == e.vehicles[i]
         IN  With(HandlePitStopLogic(Track, e, d, dt, c.stop[d]), LAMBDA e1 :
             With(UpdateDRS(e1, d), LAMBDA e2 :
             With(AttemptOvertake(e2, d, c.ot[d]), LAMBDA e3 :
             VehicleLogicLoop(e3, i + 1, dt, c))))

\* the states that forEach hands to updateDRS, by array index from i on: the
\* state handlePitStopLogic left for the vehicle of that index
RECURSIVE LogicStatesSeen(_, _, _, _)
LogicStatesSeen(e, i, dt, c) ==
    IF i > Len(e.vehicles) THEN << >>
    ELSE LET d == e.vehicles[i]
         IN  With(HandlePitStopLogic(Track, e, d, dt, c.stop[d]), LAMBDA e1 :
             With(UpdateDRS(e1, d), LAMBDA e2 :
             With(AttemptOvertake(e2, d, c.ot[d]), LAMBDA e3 :
             << e1 >> \o LogicStatesSeen(e3, i + 1, dt, c))))

UpdateRaceLogic(e, dt, c) ==
    With(UpdateSafetyCar(e, dt), LAMBDA e1 :
    With(CheckIncidents(e1, dt, c.inc), LAMBDA e2 :
    With(VehicleLogicLoop(e2, 1, dt, c), LAMBDA e3 :
    With(UpdatePositions(e3), LAMBDA e4 :
    With(UpdateMoraleAndConcentration(e4, dt), LAMBDA e5 :
    With(UpdateSpatialAwareness(e5), LAMBDA e6 :
    CheckRaceFinish(e6)))))))

\* the forEach of update: strategy, then physics unless in the pit
RECURSIVE VehicleStepLoop(_, _, _, _)
VehicleStepLoop(e, i, dt, c) ==
    IF i > Len(e.vehicles) THEN e
    ELSE LET d == e.vehicles[i]
         IN  With(UpdateStrategyAI(e, d, c.sr[d]), LAMBDA e1 :
             With(IF ~e1.veh[d].isInPit THEN UpdateVehiclePhysics(e1, d, dt, c.ph[d]) ELSE e1,
                  LAMBDA e2 : VehicleStepLoop(e2, i + 1, dt, c)))

\* the states that forEach hands to updateStrategyAI, by array index from i on
RECURSIVE StatesSeen(_, _, _, _)
StatesSeen(e, i, dt, c) ==
    IF i > Len(e.vehicles) THEN << >>
    ELSE LET d == e.vehicles[i]
         IN  With(UpdateStrategyAI(e, d, c.sr[d]), LAMBDA e1 :
             With(IF ~e1.veh[d].isInPit THEN UpdateVehiclePhysics(e1, d, dt, c.ph[d]) ELSE e1,
                  LAMBDA e2 : << e >> \o StatesSeen(e2, i + 1, dt, c)))

\* update up to the vehicle loop: elapsed time, weather, race logic
UpdateLogicPhase(e, dt, c) ==
    With([e EXCEPT !.elapsedTime = @ + dt], LAMBDA e1 :
    With(WeatherUpdate(e1, dt, c.fcloud), LAMBDA e2 :
    UpdateRaceLogic(e2, dt, c)))

EngineUpdateUnguarded(e, mid, dt, c) ==
    VehicleStepLoop(mid, 1, dt, c)
\* SimulationEngine.update; c holds every random draw of the tick and mid is
\* UpdateLogicPhase(e, dt, c), which the caller computes once
EngineUpdate(e, mid, dt, c) ==
    IF e.status # "racing" THEN e
    ELSE VehicleStepLoop(mid, 1, dt, c)

EngineStartRace(e) == [e EXCEPT !.status = "racing"]

EngineUpdateStrategy(e, driverId, type, value) ==
    IF driverId \notin Drivers THEN e
    ELSE [e EXCEPT !.veh[driverId].paceMode = IF type = "pace" THEN value ELSE @,
                   !.veh[driverId].ersMode  = IF type = "ers" THEN value ELSE @]

EngineSetWeatherMode(e, mode) == [e EXCEPT !.weatherMode = mode]

EngineSetRealWeatherData(e, data) == SetRealWeatherData(e, data)

-----------------------------------------------------------------------------
(* The draws of one tick *)

DtValues == {0, 1}

\* per-driver functions whose value for d lies in S[d]
PerDriver(S) == {f \in [Drivers -> UNION {S[d] : d \in Drivers}] : \A d \in Drivers : f[d] \in S[d]}

NoStop == 2
NoOvertake == "defended"

\* how many rare outcomes a set of draws holds
RareLogic(l) ==
    (IF l.inc # NoIncident THEN 1 ELSE 0)
    + Cardinality({d \in Drivers : l.stop[d] # NoStop})
    + Cardinality({d \in Drivers : l.ot[d] # NoOvertake})
RareStep(s) == Cardinality({d \in Drivers : s.ph[d] # NoPhysicsDraw})

\* the draws race logic can consume in state e, at most left of them rare
LogicDraws(e, dt, left) ==
    {l \in [inc  : IF left > 0 THEN IncidentChoices(e, dt) ELSE {NoIncident},
            stop : PerDriver([d \in Drivers |->
                      IF left > 0 /\ e.veh[d].isInPit /\ ~e.pitStates[d].active
                      THEN StopDraws ELSE {NoStop}]),
            ot   : PerDriver([d \in Drivers |->
                      IF left > 0 /\ OvertakeGuard(e, d)
                      THEN OvertakeDraws ELSE {NoOvertake}]),
            fcloud : IF e.weatherMode = "simulation" /\ e.forecastUpdateTimer + dt > 60
                     THEN ForecastClouds ELSE {30}] :
        RareLogic(l) <= left}

\* the Math.random() draws that can tell the outcomes of the plan branch apart
RollChoices(e, d) ==
    IF ~StrategyRolls(e, d) THEN {NoRoll}
    ELSE {[undercut |-> FALSE, roll |-> r] : r \in RollDraws}
         \cup (IF DRIVERS[d].aggression > 60
               THEN {[undercut |-> TRUE, roll |-> 99]} ELSE {})

\* the draws the vehicle loop can consume after race logic left state e
StepDraws(e, dt, left) ==
    {s \in [sr : PerDriver([d \in Drivers |-> RollChoices(e, d)]),
            ph : PerDriver([d \in Drivers |->
                    IF left > 0 /\ dt > 0 /\ ~e.veh[d].isInPit
                    THEN {NoPhysicsDraw}
                         \cup {[noise |-> n, chaos |-> 0, checkUp |-> FALSE] : n \in NoiseDraws}
                         \cup (IF StartChaos(e, d)
                               THEN {[noise |-> 0, chaos |-> n, checkUp |-> FALSE] : n \in NoiseDraws}
                               ELSE {})
                         \cup (IF CheckUpPossible(e, d)
                               THEN {[noise |-> 0, chaos |-> 0, checkUp |-> TRUE]} ELSE {})
                    ELSE {NoPhysicsDraw}])] :
        RareStep(s) <= left}

NoStep == [sr |-> [d \in Drivers |-> NoRoll], ph |-> [d \in Drivers |-> NoPhysicsDraw]]
Draws(l, s) == [inc |-> l.inc, stop |-> l.stop, ot |-> l.ot, fcloud |-> l.fcloud,
                sr |-> s.sr, ph |-> s.ph]

-----------------------------------------------------------------------------
(* The state machine *)

\* the updateStrategy(driverId, type, value) calls the caller makes
StrategyCalls == {<<"ver", "pace", "aggressive">>, <<"per", "ers", "deploy">>}

NoTwin == [status |-> "absent"]
NoSnapshot == [held |-> FALSE]
NoCall == [op |-> "new", dt |-> 0]

Init ==
    /\ \E seeded \in SeededInit : \E mr \in [Drivers -> MathRandomInit] :
          eng = InitializeRace(seeded, mr, TotalLaps)
    /\ twin = NoTwin
    /\ call = NoCall
    /\ used = 0
    /\ snap = NoSnapshot

\* startRace(); a call outside pre-race counts as a control call
StartRace ==
    /\ eng.status # "pre-race" => used < MaxEvents
    /\ eng' = EngineStartRace(eng)
    /\ call' = [op |-> "startRace", dt |-> 0]
    /\ used' = IF eng.status # "pre-race" THEN used + 1 ELSE used
    /\ UNCHANGED <<twin, snap>>

\* update(dt); update(0) counts as a control call.  The caller drops the
\* returned object
Update ==
    \E dt \in DtValues :
        /\ eng.elapsedTime + dt <= MaxTicks
        /\ dt = 0 => used < MaxEvents
        /\ \E l \in LogicDraws(eng, dt, IF eng.status = "racing" /\ dt > 0
                                        THEN MaxEvents - used ELSE 0) :
           \E mid \in {UpdateLogicPhase(eng, dt, Draws(l, NoStep))} :
           \E s \in StepDraws(mid, dt, IF eng.status = "racing"
                                       THEN MaxEvents - used - RareLogic(l) ELSE 0) :
              /\ eng' = EngineUpdate(eng, mid, dt, Draws(l, s))
              /\ used' = used + RareLogic(l) + RareStep(s) + (IF dt = 0 THEN 1 ELSE 0)
              /\ call' = [op |-> "update", dt |-> dt,
                          finishDue |-> eng.status = "racing" /\ FinishDue(mid)]
        /\ UNCHANGED <<twin, snap>>

UpdateStrategy ==
    /\ used < MaxEvents
    /\ \E a \in StrategyCalls : eng' = EngineUpdateStrategy(eng, a[1], a[2], a[3])
    /\ call' = [op |-> "updateStrategy", dt |-> 0]
    /\ used' = used + 1
    /\ UNCHANGED <<twin, snap>>

WeatherModes == {"simulation", "real"}

SetWeatherMode ==
    /\ used < MaxEvents
    /\ \E mode \in WeatherModes : eng' = EngineSetWeatherMode(eng, mode)
    /\ call' = [op |-> "setWeatherMode", dt |-> 0]
    /\ used' = used + 1
    /\ UNCHANGED <<twin, snap>>

SetRealWeather ==
    /\ used < MaxEvents
    /\ \E data \in WeatherPayloads : eng' = EngineSetRealWeatherData(eng, data)
    /\ call' = [op |-> "setRealWeatherData", dt |-> 0]
    /\ used' = used + 1
    /\ UNCHANGED <<twin, snap>>

Next == StartRace \/ Update \/ UpdateStrategy \/ SetWeatherMode \/ SetRealWeather

Spec == Init /\ [][Next]_vars

-----------------------------------------------------------------------------
(* Two engines built from the same (seed, track, drivers) and driven by the *)
(* same calls.  Every draw of the seeded generator takes its mean outcome  *)
(* in both engines, so the two seeded streams agree; the Math.random()     *)
(* draws of the StrategySystem (mr, mt at construction, the rolls sr of    *)
(* each update) are made by each engine on its own.                        *)

\* the states update(dt) can leave engine e in, the seeded draws being mean
UpdateOutcomes(e, dt) ==
    UNION { With(UpdateLogicPhase(e, dt, Draws(l, NoStep)), LAMBDA mid :
                 {EngineUpdate(e, mid, dt, Draws(l, s)) : s \in StepDraws(mid, dt, 0)})
            : l \in LogicDraws(e, dt, 0) }

\* the seeds of a dry race
TwinSeeds == {seeded \in SeededInit : seeded.cloudDraw = 0 /\ seeded.fcloud = 30}

InitTwin ==
    /\ \E seeded \in TwinSeeds : \E mr, mt \in [Drivers -> MathRandomInit] :
          /\ eng = InitializeRace(seeded, mr, TotalLaps)
          /\ twin = InitializeRace(seeded, mt, TotalLaps)
    /\ call = NoCall
    /\ used = 0
    /\ snap = NoSnapshot

TwinStartRace ==
    /\ eng.status # "pre-race" => used < MaxEvents
    /\ eng' = EngineStartRace(eng)
    /\ twin' = EngineStartRace(twin)
    /\ call' = [op |-> "startRace", dt |-> 0]
    /\ used' = IF eng.status # "pre-race" THEN used + 1 ELSE used
    /\ UNCHANGED snap

TwinUpdate ==
    \E dt \in DtValues :
        /\ eng.elapsedTime + dt <= TwinTicks
        /\ dt = 0 => used < MaxEvents
        /\ \E next \in UpdateOutcomes(eng, dt) \X UpdateOutcomes(twin, dt) :
              eng' = next[1] /\ twin' = next[2]
        /\ call' = [op |-> "update", dt |-> dt]
        /\ used' = used + (IF dt = 0 THEN 1 ELSE 0)
        /\ UNCHANGED snap

NextTwin == TwinStartRace \/ TwinUpdate

SpecTwin == InitTwin /\ [][NextTwin]_vars

-----------------------------------------------------------------------------
(* A race in which the only rare outcomes are incidents, up to MaxIncidents *)
(* of them: every other seeded draw takes its mean outcome.                 *)

\* the race-logic draws of a tick whose only rare outcome is an incident
IncidentDraws(e, dt, left) ==
    {l \in LogicDraws(e, dt, left) :
        \A d \in Drivers : l.stop[d] = NoStop /\ l.ot[d] = NoOvertake}

\* the seeds of a dry race with "ver" on pole
CrashSeeds == {seeded \in TwinSeeds : seeded.order[1] = "ver"}

InitCrash ==
    /\ \E seeded \in CrashSeeds : \E mr \in [Drivers -> MathRandomInit] :
          eng = InitializeRace(seeded, mr, CrashLaps)
    /\ twin = NoTwin
    /\ call = NoCall
    /\ used = 0
    /\ snap = NoSnapshot

CrashStartRace ==
    /\ eng.status = "pre-race"
    /\ eng' = EngineStartRace(eng)
    /\ call' = [op |-> "startRace", dt |-> 0]
    /\ UNCHANGED <<twin, used, snap>>

CrashUpdate ==
    /\ eng.status = "racing"
    /\ eng.elapsedTime + 1 <= CrashTicks
    /\ \E l \in IncidentDraws(eng, 1, MaxIncidents - used) :
       \E mid \in {UpdateLogicPhase(eng, 1, Draws(l, NoStep))} :
       \E s \in StepDraws(mid, 1, 0) :
          /\ eng' = EngineUpdate(eng, mid, 1, Draws(l, s))
          /\ used' = used + RareLogic(l)
    /\ call' = [op |-> "update", dt |-> 1]
    /\ UNCHANGED <<twin, snap>>

NextCrash == CrashStartRace \/ CrashUpdate

SpecCrash == InitCrash /\ [][NextCrash]_vars

-----------------------------------------------------------------------------
(* A race with a red flag.  On the short track of the model no vehicle is  *)
(* faster than 80 m/s on the straight or than 60 m/s in the high-speed     *)
(* corner, so the severity score of checkIncidents never passes 80; here   *)
(* the score of an incident can be forced above 80, as on a track with a   *)
(* long straight.  Every other seeded draw takes its mean outcome.         *)

ForcedSeverity == 81

\* the race-logic draws of a tick: none rare, or one incident, its severity
\* drawn or forced
RedFlagDraws(e, dt, left) ==
    IncidentDraws(e, dt, left)
    \cup (IF left > 0 /\ dt > 0 /\ CheckIncidentsGuard(e)
          THEN {[l EXCEPT !.inc = [d |-> d, chaos |-> ForcedSeverity,
                                   dnf |-> TRUE, dmg |-> 0]] :
                   l \in IncidentDraws(e, dt, 0),
                   d \in {x \in Drivers : Active(e.veh[x])}}
          ELSE {})

NoRestart == [done |-> FALSE]

\* what updateSafetyCar leaves when it ends a red flag in update(dt):
\* the vehicles and the safety-car status before checkIncidents runs
RestartState(e, dt, fcloud) ==
    With(WeatherUpdate([e EXCEPT !.elapsedTime = @ + dt], dt, fcloud), LAMBDA e1 :
    With(UpdateSafetyCar(e1, dt), LAMBDA e2 :
         IF e1.safetyCar = "red-flag" /\ e2.safetyCar # "red-flag"
         THEN [done |-> TRUE, veh |-> e2.veh, safetyCar |-> e2.safetyCar]
         ELSE NoRestart))

\* checkIncidents samples in the state updateSafetyCar left, so an incident
\* can follow in the very update that ends a neutralisation
RestartUpdate ==
    /\ eng.status = "racing"
    /\ eng.elapsedTime + 1 <= RestartTicks
    /\ \E l \in RedFlagDraws(UpdateSafetyCar(eng, 1), 1, RestartIncidents - used) :
       \E mid \in {UpdateLogicPhase(eng, 1, Draws(l, NoStep))} :
       \E s \in StepDraws(mid, 1, 0) :
          /\ eng' = EngineUpdate(eng, mid, 1, Draws(l, s))
          /\ used' = used + RareLogic(l)
          /\ call' = [op |-> "update", dt |-> 1,
                      restart |-> RestartState(eng, 1, l.fcloud)]
    /\ UNCHANGED <<twin, snap>>

NextRestart == CrashStartRace \/ RestartUpdate

SpecRestart == InitCrash /\ [][NextRestart]_vars

-----------------------------------------------------------------------------
(* The end of a red flag with vehicles on different laps.  In a field of   *)
(* two the vehicle whose crash throws the red flag is out of the race, so  *)
(* a restart with a lapped vehicle needs a larger field: the behaviours    *)
(* start with the red flag out and its timer running down, the two         *)
(* vehicles being the survivors, stopped on the track where the red flag   *)
(* caught them, in the order updatePositions gave them.                    *)

\* lapCount and distanceOnLap of the first and the second survivor
UnlapFields ==
    {f \in [lap1 : 2..3, dist1 : {10, 160, 280}, lap2 : 1..3, dist2 : {40, 130, 270}] :
        f.lap1 > f.lap2 \/ (f.lap1 = f.lap2 /\ f.dist1 > f.dist2)}

InitUnlap ==
    /\ \E seeded \in CrashSeeds, f \in UnlapFields, first \in Drivers :
          LET base == EngineStartRace(
                          InitializeRace(seeded,
                                         [d \in Drivers |-> [varPct |-> 100, low |-> TRUE,
                                                             pick |-> 1, noise |-> <<2, 0>>]],
                                         LongLaps))
              second == CHOOSE d \in Drivers : d # first
              Stopped(d, lap, dist, pos) ==
                  [base.veh[d] EXCEPT !.lapCount = lap, !.distanceOnLap = dist,
                                      !.totalDistance = (lap - 1) * TrackLen + dist,
                                      !.position = pos, !.lastPosition = pos]
          IN  eng = [base EXCEPT !.safetyCar = "red-flag", !.safetyCarTimer = RedFlagTime,
                                 !.elapsedTime = 12 * f.lap1,
                                 !.forecastUpdateTimer = 12 * f.lap1,
                                 !.currentLap = f.lap1,
                                 !.vehicles = << first, second >>,
                                 !.veh = [d \in Drivers |->
                                            IF d = first THEN Stopped(d, f.lap1, f.dist1, 1)
                                            ELSE Stopped(d, f.lap2, f.dist2, 2)]]
    /\ twin = NoTwin
    /\ call = NoCall
    /\ used = 0
    /\ snap = NoSnapshot

UnlapUpdate ==
    /\ eng.status = "racing"
    /\ used < UnlapTicks
    /\ \E l \in LogicDraws(eng, 1, 0) :
       \E mid \in {UpdateLogicPhase(eng, 1, Draws(l, NoStep))} :
       \E s \in StepDraws(mid, 1, 0) :
          /\ eng' = EngineUpdate(eng, mid, 1, Draws(l, s))
          /\ call' = [op |-> "update", dt |-> 1,
                      restart |-> RestartState(eng, 1, l.fcloud)]
    /\ used' = used + 1
    /\ UNCHANGED <<twin, snap>>

SpecUnlap == InitUnlap /\ [][UnlapUpdate]_vars

-----------------------------------------------------------------------------
(* A race whose weather the caller can switch to pushed data.  Every       *)
(* seeded draw takes its mean outcome; each update records the state and   *)
(* the Math.random() draws updateStrategyAI was called with.               *)

InitForecast ==
    /\ \E seeded \in SeededInit : \E mr \in [Drivers -> MathRandomInit] :
          eng = InitializeRace(seeded, mr, ForecastLaps)
    /\ twin = NoTwin
    /\ call = NoCall
    /\ used = 0
    /\ snap = NoSnapshot

ForecastWeatherMode ==
    /\ used < ForecastEvents
    /\ \E mode \in WeatherModes : eng' = EngineSetWeatherMode(eng, mode)
    /\ call' = [op |-> "setWeatherMode", dt |-> 0]
    /\ used' = used + 1
    /\ UNCHANGED <<twin, snap>>

ForecastWeatherData ==
    /\ used < ForecastEvents
    /\ \E data \in WeatherPayloads : eng' = EngineSetRealWeatherData(eng, data)
    /\ call' = [op |-> "setRealWeatherData", dt |-> 0]
    /\ used' = used + 1
    /\ UNCHANGED <<twin, snap>>

ForecastUpdate ==
    /\ eng.status = "racing"
    /\ eng.elapsedTime + 1 <= ForecastTicks
    /\ \E l \in LogicDraws(eng, 1, 0) :
       \E mid \in {UpdateLogicPhase(eng, 1, Draws(l, NoStep))} :
       \E s \in StepDraws(mid, 1, 0) :
       \E seen \in {StatesSeen(mid, 1, 1, Draws(l, s))} :
          /\ eng' = EngineUpdate(eng, mid, 1, Draws(l, s))
          /\ call' = [op |-> "update", dt |-> 1, sr |-> s.sr,
                      seen |-> [d \in Drivers |->
                                  seen[CHOOSE i \in 1..Len(mid.vehicles) :
                                          mid.vehicles[i] = d]]]
    /\ UNCHANGED <<twin, used, snap>>

NextForecast ==
    CrashStartRace \/ ForecastUpdate \/ ForecastWeatherMode \/ ForecastWeatherData

SpecForecast == InitForecast /\ [][NextForecast]_vars

-----------------------------------------------------------------------------
(* A dry ten-lap race in which the caller can push weather data and one    *)
(* rare outcome of the race logic (an incident, a slow stop, an overtake   *)
(* roll) can happen instead.  Each update records the draws of its race    *)
(* logic and, per vehicle, the state its updateDRS was called in.          *)

InitDrs ==
    /\ \E seeded \in TwinSeeds : \E mr \in [Drivers -> MathRandomInit] :
          eng = InitializeRace(seeded, mr, ForecastLaps)
    /\ twin = NoTwin
    /\ call = NoCall
    /\ used = 0
    /\ snap = NoSnapshot

DrsUpdate ==
    /\ eng.status = "racing"
    /\ eng.elapsedTime + 1 <= DrsTicks
    /\ \E l \in LogicDraws(eng, 1, IF used = 0 THEN 1 ELSE 0) :
       \E before \in {UpdateSafetyCar(WeatherUpdate([eng EXCEPT !.elapsedTime = @ + 1],
                                                    1, l.fcloud), 1)} :
       \E seen \in {LogicStatesSeen(CheckIncidents(before, 1, l.inc), 1, 1,
                                    Draws(l, NoStep))} :
       \E mid \in {UpdateLogicPhase(eng, 1, Draws(l, NoStep))} :
       \E s \in StepDraws(mid, 1, 0) :
          /\ eng' = EngineUpdate(eng, mid, 1, Draws(l, s))
          /\ used' = IF RareLogic(l) > 0 THEN ForecastEvents ELSE used
          /\ call' = [op |-> "update", dt |-> 1, inc |-> l.inc, ot |-> l.ot,
                      before |-> [safetyCar |-> before.safetyCar, veh |-> before.veh],
                      logic |-> [d \in Drivers |->
                                   seen[CHOOSE i \in 1..Len(before.vehicles) :
                                           before.vehicles[i] = d]]]
    /\ UNCHANGED <<twin, snap>>

NextDrs == CrashStartRace \/ DrsUpdate \/ ForecastWeatherMode \/ ForecastWeatherData

SpecDrs == InitDrs /\ [][NextDrs]_vars

-----------------------------------------------------------------------------
(* A long race: two minutes of racing, over which the ERS store can be     *)
(* emptied and the forecast is refreshed.  Every seeded draw and every     *)
(* Math.random() draw takes its mean outcome; the caller's control calls   *)
(* (updateStrategy, setWeatherMode) come at multiples of CallEvery.        *)

InitLong ==
    /\ \E seeded \in CrashSeeds :
          eng = InitializeRace(seeded,
                               [d \in Drivers |-> [varPct |-> 100, low |-> TRUE, pick |-> 1,
                                                   noise |-> <<2, 0>>]], LongLaps)
    /\ twin = NoTwin
    /\ call = NoCall
    /\ used = 0
    /\ snap = NoSnapshot

LongUpdate ==
    /\ eng.status = "racing"
    /\ eng.elapsedTime + 1 <= LongTicks
    /\ \E l \in LogicDraws(eng, 1, 0) :
       \E mid \in {UpdateLogicPhase(eng, 1, Draws(l, NoStep))} :
          eng' = EngineUpdate(eng, mid, 1, Draws(l, NoStep))
    /\ call' = [op |-> "update", dt |-> 1]
    /\ UNCHANGED <<twin, used, snap>>

LongControl ==
    /\ used < LongCalls
    /\ eng.elapsedTime % CallEvery = 0
    /\ \/ /\ \E a \in StrategyCalls : eng' = EngineUpdateStrategy(eng, a[1], a[2], a[3])
          /\ call' = [op |-> "updateStrategy", dt |-> 0]
       \/ /\ \E mode \in WeatherModes \ {eng.weatherMode} :
                eng' = EngineSetWeatherMode(eng, mode)
          /\ call' = [op |-> "setWeatherMode", dt |-> 0]
    /\ used' = used + 1
    /\ UNCHANGED <<twin, snap>>

NextLong == CrashStartRace \/ LongUpdate \/ LongControl

SpecLong == InitLong /\ [][NextLong]_vars

-----------------------------------------------------------------------------
(* The interpolation of WeatherSystem.update on its own, in the number     *)
(* arithmetic of the code: cloud cover and rain intensity are binary       *)
(* floating-point numbers, here of FloatBits significant bits in units of  *)
(* the smallest step, and every operation rounds its result to the nearest *)
(* representable number, ties to even.  (Elsewhere in this module the      *)
(* values are whole numbers that every operation keeps exact.)             *)

RECURSIVE Pow2(_)
Pow2(n) == IF n = 0 THEN 1 ELSE 2 * Pow2(n - 1)

\* the quantum of the binade that holds x >= 0
RECURSIVE Quantum(_, _)
Quantum(x, q) == IF x < q * Pow2(FloatBits) THEN q ELSE Quantum(x, 2 * q)

\* x rounded to the nearest representable number, ties to even
Fl(x) ==
    LET a  == IF x < 0 THEN -x ELSE x
        q  == Quantum(a, 1)
        lo == (a \div q) * q
        r  == a - lo
        up == 2 * r > q \/ (2 * r = q /\ (a \div q) % 2 = 1)
        m  == IF up THEN lo + q ELSE lo
    IN  IF x < 0 THEN -m ELSE m

\* prev + (next - prev) * t, with t = num / den and t = 0 when den = 0
FloatLerp(a, b, num, den) ==
    LET t == IF den > 0 THEN num \div den ELSE 0
    IN  Fl(a + Fl(Fl(b - a) * t))

\* the "Interpolate Current Weather" block
InterpolateWeather(e) ==
    LET prev == Segment(e.weatherForecast, e.elapsedTime).prevNode
        next == Segment(e.weatherForecast, e.elapsedTime).nextNode
        num  == e.elapsedTime - prev.timeOffset
        den  == next.timeOffset - prev.timeOffset
    IN  [e EXCEPT !.cloudCover = FloatLerp(prev.cloudCover, next.cloudCover, num, den),
                  !.rainIntensityLevel = FloatLerp(prev.rainIntensity, next.rainIntensity,
                                                   num, den)]

\* cloud covers: the representable numbers up to the full scale
CloudValues == {v \in 0..Pow2(FloatBits + 2) : Fl(v) = v}
RainValues == {0, 1}

\* a forecast of three nodes and a time that is the timeOffset of one of them
InitLerp ==
    /\ \E c1, c3 \in CloudValues, c2 \in {0, 5}, r1, r2, r3 \in RainValues, k \in 0..2 :
          eng = [status |-> "forecast", elapsedTime |-> 120 * k,
                 weatherForecast |->
                    << [timeOffset |-> 0, cloudCover |-> c1, rainIntensity |-> r1],
                       [timeOffset |-> 120, cloudCover |-> c2, rainIntensity |-> r2],
                       [timeOffset |-> 240, cloudCover |-> c3, rainIntensity |-> r3] >>,
                 cloudCover |-> c1, rainIntensityLevel |-> r1]
    /\ twin = NoTwin
    /\ call = NoCall
    /\ used = 0
    /\ snap = NoSnapshot

LerpUpdate ==
    /\ call.op = "new"
    /\ eng' = InterpolateWeather(eng)
    /\ call' = [op |-> "interpolate", dt |-> 0]
    /\ UNCHANGED <<twin, used, snap>>

SpecLerp == InitLerp /\ [][LerpUpdate]_vars

-----------------------------------------------------------------------------
(* StrategySystem.initializeStrategy on its own: the driver, the race       *)
(* length, the rain at the start and the Math.random() draws range over     *)
(* the sets below, on a track of standard degradation.                      *)

PlanDegradation == 1    \* track.tireDegradationFactor, 1.0 = standard
PlanStops == 4          \* pit stops served on one plan

\* the arguments of the call and its Math.random() draws
PlanInputs ==
    [driver : Drivers, totalLaps : {2, 18, 30, 41, 44, 52}, rain : {0, 80},
     mr : [varPct : {90, 100, 110}, low : BOOLEAN, pick : 1..4,
           noise : {<<a, b>> : a \in -2..2, b \in {-2, 0, 2}}]]

InitPlan ==
    /\ \E in \in PlanInputs : call = NoCall @@ in
    /\ eng = [status |-> "absent"]
    /\ twin = NoTwin
    /\ used = 0
    /\ snap = NoSnapshot

\* the call of RaceLogicSystem.initializeRace (line 65) for one driver
PlanStrategy ==
    /\ call.op = "new"
    /\ call' = [call EXCEPT !.op = "initializeStrategy"]
    /\ eng' = [status |-> "planned",
               plan |-> InitializeStrategy(call.driver, PlanDegradation, call.totalLaps,
                                          call.rain, call.mr)]
    /\ UNCHANGED <<twin, used, snap>>

\* the rain and the lap a stop is served on: both sides of every threshold
\* of getPitCompound
ServiceInputs(totalLaps) ==
    [rain : {0, 10, 11, 60, 61},
     lap  : {l \in {totalLaps - 30, totalLaps - 29, totalLaps - 15, totalLaps - 14} : l >= 1}]

\* lines 523-528 of handlePitStopLogic: the compound of the release and the
\* step along the plan
PlanService ==
    /\ eng.status \in {"planned", "serviced"}
    /\ eng.plan.currentStintIndex < PlanStops
    /\ \E in \in ServiceInputs(call.totalLaps) :
          /\ call' = [op |-> "getPitCompound", dt |-> 0, totalLaps |-> call.totalLaps,
                      rain |-> in.rain, lap |-> in.lap]
          /\ eng' = [status |-> "serviced",
                     plan |-> [eng.plan EXCEPT !.currentStintIndex = @ + 1],
                     tyreCompound |->
                         GetPitCompound([strategyPlan |-> eng.plan],
                                        [rainIntensityLevel |-> in.rain,
                                         currentLap |-> in.lap], call.totalLaps)]
    /\ UNCHANGED <<twin, used, snap>>

NextPlan == PlanStrategy \/ PlanService

SpecPlan == InitPlan /\ [][NextPlan]_vars

-----------------------------------------------------------------------------
(* The pit-stop loss script: two cars on SILVERSTONE, one of them called   *)
(* to the pit, 60 s in ticks of 0.1 s; every tick runs updateRaceLogic and *)
(* then the script's own pit-entry check and constant-speed move.  Units   *)
(* here: time in ticks of 0.1 s, distance in cm, speed in cm per tick.     *)
(* Of updateRaceLogic the script model keeps handlePitStopLogic, the only  *)
(* sub-step that writes distanceOnLap, totalDistance, lapCount or isInPit  *)
(* while no incident is drawn; the cars have damage 0 and the lane's       *)
(* stopTime is above 5 s, so the two durations handlePitStopLogic holds as *)
(* literals in seconds (10 and 5) are not used.                            *)

SILVERSTONE ==
    [totalDistance |-> 589100,
     pitLane |-> [entryDistance |-> 480000, exitDistance |-> 40000,
                  speedLimit |-> 222, stopTime |-> 250]]

SimDuration == 600     \* simDuration / dt
ScriptSpeed == 800     \* v.speed = 80
EntryWindow == 5000    \* entryDist + 50

ScriptCars == <<"car_pit", "car_track">>

\* where car_pit starts: the script's 5650 m, and 50 m before the pit entry
ScriptStarts == {565000, SILVERSTONE.pitLane.entryDistance - 5000}

\* mockCarPit, and mockCarTrack 30 m behind it
MockCar(dist, box, position) ==
    [distanceOnLap |-> dist, totalDistance |-> dist + SILVERSTONE.totalDistance,
     speed |-> ScriptSpeed, lapCount |-> 1, isInPit |-> FALSE, pitStopCount |-> 0,
     boxThisLap |-> box, tyreCompound |-> "medium", tyreWear |-> 80 * 1000,
     tyreAgeLaps |-> 10, damage |-> 0, position |-> position,
     strategyPlan |-> [stints |-> << >>, currentStintIndex |-> 0]]

MockState(start) ==
    [start |-> start, elapsedTime |-> 0, currentLap |-> 2, totalLaps |-> 52,
     status |-> "racing", rainIntensityLevel |-> 0,
     veh |-> [c \in {"car_pit", "car_track"} |->
                IF c = "car_pit" THEN MockCar(start, TRUE, 1)
                ELSE MockCar(start - 3000, FALSE, 2)],
     pitStates |-> [c \in {"car_pit", "car_track"} |-> NoPit]]

ScriptStopDraws == {20, 28}     \* rng.range(2.0, 2.8), in ticks

\* lines 147-169: the pit-entry check and the move of one car
ScriptMove(e, c) ==
    LET v == e.veh[c]
        entryDist == SILVERSTONE.pitLane.entryDistance
        dist == v.distanceOnLap + ScriptSpeed
        lap  == dist >= SILVERSTONE.totalDistance
    IN  IF v.isInPit THEN e
        ELSE IF v.boxThisLap /\ v.distanceOnLap >= entryDist
                             /\ v.distanceOnLap < entryDist + EntryWindow
        THEN [e EXCEPT !.veh[c].isInPit = TRUE]
        ELSE [e EXCEPT !.veh[c].speed = ScriptSpeed,
                       !.veh[c].distanceOnLap =
                            IF lap THEN dist - SILVERSTONE.totalDistance ELSE dist,
                       !.veh[c].totalDistance = @ + ScriptSpeed,
                       !.veh[c].lapCount = IF lap THEN @ + 1 ELSE @]

\* one pass of the while loop; stop is the stop-time draw of a car that
\* starts its stay in the pit lane in this tick
ScriptStep(e, stop) ==
    With(HandlePitStopLogic(SILVERSTONE, e, ScriptCars[1], 1, stop), LAMBDA e1 :
    With(HandlePitStopLogic(SILVERSTONE, e1, ScriptCars[2], 1, stop), LAMBDA e2 :
    With(ScriptMove(e2, ScriptCars[1]), LAMBDA e3 :
    With(ScriptMove(e3, ScriptCars[2]), LAMBDA e4 :
    [e4 EXCEPT !.elapsedTime = @ + 1]))))

InitScript ==
    /\ \E start \in ScriptStarts : eng = MockState(start)
    /\ twin = NoTwin
    /\ call = NoCall
    /\ used = 0
    /\ snap = NoSnapshot

ScriptTick ==
    /\ eng.elapsedTime < SimDuration
    /\ \E stop \in IF \E c \in {"car_pit", "car_track"} :
                        eng.veh[c].isInPit /\ ~eng.pitStates[c].active
                   THEN ScriptStopDraws ELSE {NoStop * 10} :
          eng' = ScriptStep(eng, stop)
    /\ call' = [op |-> "tick", dt |-> 1]
    /\ UNCHANGED <<twin, used, snap>>

NextScript == ScriptTick

SpecScript == InitScript /\ [][NextScript]_vars

-----------------------------------------------------------------------------
(* The object update returns.  update returns this.state itself when the   *)
(* status is not racing and the shallow copy { ...this.state } otherwise:  *)
(* the copy has its own top-level fields and shares the vehicles array,    *)
(* the vehicle objects and the forecast array with the engine.  The        *)
(* consumer keeps the first object it gets.                                *)

\* the RaceState of engine e: its state without the systems' private fields
RaceStateOf(e) ==
    [status |-> e.status, elapsedTime |-> e.elapsedTime, currentLap |-> e.currentLap,
     totalLaps |-> e.totalLaps, weather |-> e.weather, weatherMode |-> e.weatherMode,
     weatherForecast |-> e.weatherForecast, cloudCover |-> e.cloudCover,
     rainIntensityLevel |-> e.rainIntensityLevel, trackWaterDepth |-> e.trackWaterDepth,
     windSpeed |-> e.windSpeed, windDirection |-> e.windDirection,
     trackTemp |-> e.trackTemp, airTemp |-> e.airTemp,
     safetyCar |-> e.safetyCar, checkeredFlag |-> e.checkeredFlag, winnerId |-> e.winnerId,
     vehicles |-> e.vehicles, veh |-> e.veh]

\* the object returned from state e; live: it is this.state itself;
\* seen: the values it held when it was returned
ReturnedState(e, live) == [held |-> TRUE, live |-> live, seen |-> RaceStateOf(e)]

\* what reading the held object s gives when the engine is in state e
ReadSnapshot(s, e) ==
    IF s.live THEN RaceStateOf(e)
    ELSE [s.seen EXCEPT !.vehicles = e.vehicles, !.veh = e.veh,
                        !.weatherForecast = e.weatherForecast]

\* update(1) with every seeded draw at its mean outcome
SnapUpdate ==
    /\ eng.elapsedTime + 1 <= SnapTicks
    /\ \E next \in UpdateOutcomes(eng, 1) :
          /\ eng' = next
          /\ snap' = IF snap.held THEN snap
                     ELSE ReturnedState(next, eng.status # "racing")
    /\ call' = [op |-> "update", dt |-> 1]
    /\ UNCHANGED <<twin, used>>

NextSnap == StartRace \/ SnapUpdate \/ UpdateStrategy \/ SetWeatherMode \/ SetRealWeather

SpecSnap == Init /\ [][NextSnap]_vars

-----------------------------------------------------------------------------
(* Properties *)

\* C1: update(dt) called while the status is pre-race or finished changes no
\* field of the race state, for every dt.
C1_UpdateIsNoOpUnlessRacing ==
    [][call'.op = "update" /\ eng.status \in {"pre-race", "finished"} => eng' = eng]_vars

\* update(1) was called before the start
C1_UpdateBeforeStart ==
    call.op = "update" /\ call.dt = 1 /\ eng.status = "pre-race"

\* C2: startRace() called in pre-race moves the status to racing and changes
\* no other field, and the status becomes racing only from pre-race, through
\* startRace().
C2_RacingOnlyFromPreRace ==
    [][/\ call'.op = "startRace" /\ eng.status = "pre-race"
          => eng' = [eng EXCEPT !.status = "racing"]
       /\ eng.status # "racing" /\ eng'.status = "racing"
          => eng.status = "pre-race" /\ call'.op = "startRace"]_vars

\* C3: two engines built with the same (seed, track, drivers) and driven by
\* the same startRace/update(dt) calls are equal in every field after each call.
C3_TwinsAgree ==
    call.op \in {"startRace", "update"} => eng = twin

\* C4: after construction and after every update the positions of the N
\* vehicles are a permutation of 1..N.
C4_PositionsArePermutation ==
    \A p \in 1..NumVehicles : Cardinality({d \in Drivers : eng.veh[d].position = p}) = 1

\* an update ranked a vehicle that made a pit stop in a new position
C4_RankedAfterPitStop ==
    /\ call.op = "update"
    /\ \E d \in Drivers : /\ eng.veh[d].pitStopCount > 0
                          /\ eng.veh[d].position # eng.veh[d].lastPosition

\* (lapCount, distanceOnLap) of a is lexicographically greater than that of b
LexGreater(a, b) ==
    \/ eng.veh[a].lapCount > eng.veh[b].lapCount
    \/ /\ eng.veh[a].lapCount = eng.veh[b].lapCount
       /\ eng.veh[a].distanceOnLap > eng.veh[b].distanceOnLap

\* C5: after every update, position(a) < position(b) iff (lapCount,
\* distanceOnLap) of a is lexicographically greater than that of b.
C5_PositionsFollowLapDistance ==
    call.op = "update" =>
        \A a, b \in Drivers : eng.veh[a].position < eng.veh[b].position <=> LexGreater(a, b)

C7_OdometerMonotone ==
    [][\A d \in Drivers : eng'.veh[d].totalDistance >= eng.veh[d].totalDistance]_vars

\* a vehicle went through the pit lane and drove on
C7_DroveThroughPitLane ==
    \E d \in Drivers : /\ eng.veh[d].pitStopCount > 0
                       /\ eng.veh[d].totalDistance > TrackLen

\* the step releases vehicle d from the pit lane
Released(d) == eng'.veh[d].pitStopCount # eng.veh[d].pitStopCount

\* C8 as stated: tyreWear never decreases except in the update that releases
\* the vehicle, after which tyreWear and tyreAgeLaps are both 0.
C8_WearZeroAfterRelease ==
    [][\A d \in Drivers :
          IF Released(d)
          THEN eng'.veh[d].tyreWear = 0 /\ eng'.veh[d].tyreAgeLaps = 0
          ELSE eng'.veh[d].tyreWear >= eng.veh[d].tyreWear]_vars

\* C8: tyreWear never decreases except in the update that releases the
\* vehicle; that update resets tyreWear and tyreAgeLaps to 0 and then wears
\* the new tyres for its dt, so it ends with tyreAgeLaps = 0 and tyreWear =
\* wear rate of the new compound * dt.
C8_WearResetThenWorn ==
    [][\A d \in Drivers :
          IF Released(d)
          THEN /\ eng'.veh[d].tyreAgeLaps = 0
               /\ eng'.veh[d].tyreWear =
                     GetWearRate(eng'.veh[d].tyreCompound, eng'.veh[d].paceMode, 0) * call'.dt
          ELSE eng'.veh[d].tyreWear >= eng.veh[d].tyreWear]_vars

\* a vehicle has just been released on tyres less worn than the ones it
\* started on would be
C8_JustReleased ==
    /\ call.op = "update"
    /\ \E d \in Drivers : /\ eng.veh[d].pitStopCount > 0
                          /\ eng.veh[d].tyreAgeLaps = 0
                          /\ eng.veh[d].tyreWear > 0
                          /\ eng.veh[d].tyreWear =
                                GetWearRate(eng.veh[d].tyreCompound, eng.veh[d].paceMode, 0)

\* C9: after every update, tyreWear, fuelLoad, ersLevel, morale and
\* concentration of every vehicle are within [0, 100].
C9_ResourcesInRange ==
    \A d \in Drivers :
        /\ eng.veh[d].tyreWear >= 0 /\ eng.veh[d].tyreWear <= WearFull
        /\ eng.veh[d].fuelLoad >= 0 /\ eng.veh[d].fuelLoad <= FuelFull
        /\ eng.veh[d].ersLevel >= 0 /\ eng.veh[d].ersLevel <= Full
        /\ eng.veh[d].morale >= 0 /\ eng.veh[d].morale <= Full
        /\ eng.veh[d].concentration >= 0 /\ eng.veh[d].concentration <= Full

\* an update left a vehicle with its tyres worn to the cap and its ERS
\* charged to the cap
C9_AtTheCaps ==
    /\ call.op = "update"
    /\ \E d \in Drivers : eng.veh[d].tyreWear = WearFull /\ eng.veh[d].ersLevel = Full

\* C10: after every update every vehicle has 0 <= speed <= 150, the boosted
\* and checked-up vehicles and those in the pit lane included.
C10_SpeedInRange ==
    \A d \in Drivers : eng.veh[d].speed >= 0 /\ eng.veh[d].speed <= 150

\* a vehicle in the pit lane, which physics skips, that got the +5 m/s boost
C10_BoostedInPitLane ==
    /\ call.op = "update"
    /\ \E d \in Drivers : eng.veh[d].isInPit /\ eng.veh[d].speed = PitLane.speedLimit + 5

\* C11: after every update every vehicle has 0 <= damage <= 100, whatever
\* incidents and pit stops happened.
C11_DamageInRange ==
    \A d \in Drivers : eng.veh[d].damage >= 0 /\ eng.veh[d].damage <= 100

\* C12: once checkeredFlag is true, the vehicle with position 1 is the vehicle
\* whose driverId equals winnerId, after the update that raised the flag and
\* after every later update.
C12_WinnerKeepsFirstPosition ==
    eng.checkeredFlag =>
        \A d \in Drivers : eng.veh[d].position = 1 <=> d = eng.winnerId

\* C13: the finish markers are write-once: hasFinished of a vehicle never goes
\* from true to false, checkeredFlag never goes from true to false, and
\* winnerId never changes once it is set.
C13_FinishMarkersWriteOnce ==
    [][/\ \A d \in Drivers : eng.veh[d].hasFinished => eng'.veh[d].hasFinished
       /\ eng.checkeredFlag => eng'.checkeredFlag
       /\ eng.winnerId # "none" => eng'.winnerId = eng.winnerId]_vars

\* an update after the flag, in which a vehicle other than the winner holds
\* position 1 on a lap that would raise the flag
C13_AnotherLeaderAfterFlag ==
    /\ call.op = "update" /\ eng.checkeredFlag
    /\ \E d \in Drivers : /\ d # eng.winnerId /\ eng.veh[d].position = 1
                          /\ eng.veh[d].lapCount >= eng.totalLaps

\* the fields of vehicle v that a call must keep for the vehicle to count as
\* unchanged
KeptFields(v) ==
    <<v.speed, v.distanceOnLap, v.position, v.lastPosition, v.morale, v.concentration,
      v.isInPit, v.boxThisLap, v.drsOpen, v.damage>>

\* C14: update(0) called while the status is racing changes no field of the
\* race state or of a vehicle: speed, distanceOnLap, position, lastPosition,
\* morale, concentration, isInPit, boxThisLap, drsOpen, damage and safetyCar
\* all keep their values.
C14_ZeroStepChangesNothing ==
    [][call'.op = "update" /\ call'.dt = 0 /\ eng.status = "racing"
       => /\ \A d \in Drivers : KeptFields(eng'.veh[d]) = KeptFields(eng.veh[d])
          /\ eng'.safetyCar = eng.safetyCar]_vars

\* C15: setRealWeatherData(data) called while weatherMode is simulation
\* leaves the whole race state unchanged, for every payload.
C15_WeatherPushIgnoredInSimulation ==
    [][call'.op = "setRealWeatherData" /\ eng.weatherMode = "simulation" => eng' = eng]_vars

\* a payload that differs from the current weather was pushed during the race
\* in simulation mode
C15_PushedDuringRace ==
    /\ call.op = "setRealWeatherData" /\ eng.weatherMode = "simulation"
    /\ eng.status = "racing" /\ eng.elapsedTime > 0
    /\ \A data \in WeatherPayloads : data.cloudCover # eng.cloudCover

\* C16: the state object update returned is an immutable snapshot: whatever
\* calls follow, reading it gives the values it held when it was returned.
C16_SnapshotImmutable ==
    snap.held => ReadSnapshot(snap, eng) = snap.seen

\* C17: the status is finished only in states where checkeredFlag is true and
\* every vehicle with damage < 100 has hasFinished = true; and an update in
\* status racing whose race-logic phase finds that condition sets the status
\* to finished.
C17_FinishedIffAllActiveFinished ==
    [][/\ eng'.status = "finished" => FinishDue(eng')
       /\ call'.op = "update" /\ eng.status = "racing" /\ call'.finishDue
          => eng'.status = "finished"]_vars

\* an update ended the race with a vehicle out of it (damage 100) that never
\* finished
C17_FinishedWithRetirement ==
    /\ call.op = "update" /\ call.finishDue /\ eng.status = "finished"
    /\ \E d \in Drivers : eng.veh[d].damage = 100 /\ ~eng.veh[d].hasFinished

\* C18: pit-stop loss: at the end of the 60 s of the script a car that went
\* through the pit-stop state machine has a smaller odometer than the car that
\* stayed on track, and in the Silverstone scenario (cars at 5650 m and 5620 m,
\* 80 m/s, the first one called to the pit) the odometer of the pit car is at
\* least 500 m behind that of the track car.
C18_PitCarLosesDistance ==
    eng.elapsedTime = SimDuration =>
        /\ eng.veh["car_pit"].pitStopCount > 0
              => eng.veh["car_pit"].totalDistance < eng.veh["car_track"].totalDistance
        /\ eng.start = 565000
              => eng.veh["car_pit"].totalDistance + 50000
                    <= eng.veh["car_track"].totalDistance

\* the vehicles of r the restart lines up, and the rank of d among them
Survivors(r) == {d \in Drivers : Active(r.veh[d])}
GridRank(r, d) == Cardinality({x \in Survivors(r) : r.veh[x].position <= r.veh[d].position})
\* r shows the restart grid: the survivors on the lap of the first of them,
\* standing 16 m apart in position order from 50 m before the line, their
\* transient flags cleared, and no safety car
RestartGrid(r) ==
    /\ r.safetyCar = "none"
    /\ \A d \in Survivors(r) :
          /\ \A x \in Survivors(r) : GridRank(r, x) = 1 => r.veh[d].lapCount = r.veh[x].lapCount
          /\ r.veh[d].speed = 0
          /\ r.veh[d].distanceOnLap = (TrackLen - 50) - 16 * (GridRank(r, d) - 1)
          /\ ~r.veh[d].isBattling /\ ~r.veh[d].inDirtyAir /\ ~r.veh[d].blueFlag

\* C19 (as stated): red-flag restart: the state update returns in when the
\* red-flag timer has elapsed shows the restart grid.
C19_RestartGridWhenUpdateReturns ==
    call.op = "update" /\ call.restart.done => RestartGrid(eng)

\* C19 (amended): red-flag restart: when the red-flag timer elapses in an
\* update, the state updateSafetyCar leaves to the rest of that update shows
\* the restart grid.
C19_RestartGridAfterSafetyCarStep ==
    call.op = "update" /\ call.restart.done => RestartGrid(call.restart)

\* C19 (witness): an update has just ended a red flag with two vehicles left
\* to line up.
C19_TwoCarsRestarted ==
    call.op = "update" /\ call.restart.done /\ Cardinality(Survivors(call.restart)) = 2

\* the compound class of d is the class ideal for the mean forecast rain of
\* the next 300 s, and d is not on slicks with rain > 40
StayOutCase(e, d) ==
    /\ ~e.veh[d].boxThisLap
    /\ CheckForecast(e, e.veh[d].tyreCompound, e.rainIntensityLevel) = "stay_out"
\* updateStrategyAI, called for d in state e with the draws sr, sets boxThisLap
SetsBox(e, d, sr) == ~e.veh[d].boxThisLap /\ UpdateStrategyAI(e, d, sr).veh[d].boxThisLap
\* the plan of v has a later stint and lap has reached the window of the stop
PlanWindowReached(v, lap) ==
    LET plan == v.strategyPlan
    IN  /\ plan.currentStintIndex + 1 < Len(plan.stints)
        /\ lap >= plan.stints[plan.currentStintIndex + 1].endLap - 2

\* C20 (as stated): forecast override: when the compound class of a vehicle
\* equals the class ideal for the mean forecast rain of the next 300 s (wet
\* tyres in rain 80 with a forecast mean of 70 being one such case), and the
\* vehicle is not on slicks with rain > 40, updateStrategyAI leaves boxThisLap
\* false.
C20_MatchingClassNeverBoxes ==
    call.op = "update" =>
        \A d \in Drivers : StayOutCase(call.seen[d], d) => ~SetsBox(call.seen[d], d, call.sr[d])

\* C20 (amended): forecast override: in that case the weather check does not
\* set boxThisLap; updateStrategyAI sets it only for damage above 15, tyre
\* wear above 80 %, or a plan with a later stint whose pit window (two laps
\* before the end of the stint) has been reached.
C20_MatchingClassBoxesForCarOrPlan ==
    call.op = "update" =>
        \A d \in Drivers :
            StayOutCase(call.seen[d], d) /\ SetsBox(call.seen[d], d, call.sr[d])
                => \/ call.seen[d].veh[d].damage > 15
                   \/ call.seen[d].veh[d].tyreWear > 80 * 1000
                   \/ PlanWindowReached(call.seen[d].veh[d], call.seen[d].currentLap)

\* C20 (witness): updateStrategyAI ran for a vehicle on wet tyres on a dry
\* track with a wet forecast, and left boxThisLap false.
C20_StayedOutOnWets ==
    /\ call.op = "update"
    /\ \E d \in Drivers :
          /\ StrategyWindow(call.seen[d], d)
          /\ StayOutCase(call.seen[d], d)
          /\ call.seen[d].veh[d].tyreCompound = "wet"
          /\ call.seen[d].rainIntensityLevel <= 10
          /\ ~SetsBox(call.seen[d], d, call.sr[d])
          /\ ~eng.veh[d].boxThisLap

\* DRS is disabled in state e
DrsDisabled(e) == e.currentLap < 3 \/ e.weather # "dry" \/ e.safetyCar # "none"

\* C21: DRS gating: after an update whose race logic met a vehicle with
\* currentLap < 3, or weather not dry, or safetyCar not none, that vehicle has
\* drsOpen = false; so a vehicle with drsOpen = true loses it in the first
\* update after the rain has made the weather other than dry.
C21_DrsClosedWhenDisabled ==
    call.op = "update" =>
        \A d \in Drivers : DrsDisabled(call.logic[d]) => ~eng.veh[d].drsOpen

\* C21 (witness): an update has just closed the DRS of a vehicle because the
\* weather is no longer dry, on lap 3 or later and without a safety car.
C21_ClosedByRain ==
    /\ call.op = "update"
    /\ \E d \in Drivers :
          /\ call.logic[d].veh[d].drsOpen
          /\ call.logic[d].weather # "dry"
          /\ call.logic[d].currentLap >= 3 /\ call.logic[d].safetyCar = "none"
          /\ ~eng.veh[d].drsOpen

\* v lies in a DRS zone, is not the leader and is less than 1.0 s behind
DrsEarned(v) ==
    /\ \E zone \in DrsZones : v.distanceOnLap >= zone.activationDistance
                               /\ v.distanceOnLap <= zone.endDistance
    /\ v.position > 1
    /\ GapLt(v.gapToAhead, 1, 1)

\* C22: when DRS is enabled (currentLap >= 3, dry, no safety car), after
\* updateDRS a vehicle has drsOpen = true exactly when it lies in a zone, is
\* not the leader and has gapToAhead < 1.0.
C22_DrsOpenIffEarned ==
    call.op = "update" =>
        \A d \in Drivers :
            ~DrsDisabled(call.logic[d])
                => (UpdateDRS(call.logic[d], d).veh[d].drsOpen
                        <=> DrsEarned(call.logic[d].veh[d]))

\* C23: once checkeredFlag is raised, a vehicle whose lapCount is incremented
\* by a later update has hasFinished = true after that update, on track and
\* in the pit lane alike.
C23_CrossingAfterFlagFinishes ==
    [][\A d \in Drivers :
          eng.checkeredFlag /\ eng'.veh[d].lapCount > eng.veh[d].lapCount
              => eng'.veh[d].hasFinished]_vars

\* v0 is a vehicle in the pit lane with the plan it came in with, v the same
\* vehicle as serviced and released in state e
ServicedAndReleased(v0, v, e) ==
    /\ ~v.isInPit
    /\ v.distanceOnLap = PitLane.exitDistance
    /\ v.pitStopCount = v0.pitStopCount + 1
    /\ ~v.boxThisLap
    /\ v.tyreWear = 0 /\ v.tyreAgeLaps = 0 /\ v.damage = 0
    /\ v.tyreCompound = GetPitCompound(v0, e, e.totalLaps)
    /\ v.strategyPlan.currentStintIndex = v0.strategyPlan.currentStintIndex + 1

\* C24 (as stated): the update that releases a vehicle from the pit lane ends
\* with the vehicle at the pit exit, serviced (tyreWear 0, tyreAgeLaps 0,
\* damage 0, the compound of getPitCompound, the next stint), boxThisLap
\* false and pitStopCount one higher; pitStopCount changes in no other update.
C24_ReleasedWhenUpdateReturns ==
    [][\A d \in Drivers :
          /\ call'.op = "update" /\ eng.veh[d].isInPit /\ ~eng'.veh[d].isInPit
                => ServicedAndReleased(eng.veh[d], eng'.veh[d], eng')
          /\ eng'.veh[d].pitStopCount # eng.veh[d].pitStopCount
                => call'.op = "update" /\ eng.veh[d].isInPit /\ ~eng'.veh[d].isInPit]_vars

\* C24 (amended): in the update that releases a vehicle, handlePitStopLogic
\* leaves it at the pit exit, serviced, with boxThisLap false and pitStopCount
\* one higher, and the update ends with it out of the pit lane, pitStopCount
\* one higher, damage 0, the new compound and the next stint; pitStopCount
\* changes in no other update.
C24_ReleasedAfterPitStopLogic ==
    [][\A d \in Drivers :
          /\ call'.op = "update" /\ eng.veh[d].isInPit /\ ~eng'.veh[d].isInPit
                => /\ ServicedAndReleased(eng.veh[d], call'.logic[d].veh[d], call'.logic[d])
                   /\ eng'.veh[d].pitStopCount = eng.veh[d].pitStopCount + 1
                   /\ eng'.veh[d].damage = 0
                   /\ eng'.veh[d].tyreCompound = call'.logic[d].veh[d].tyreCompound
                   /\ eng'.veh[d].strategyPlan.currentStintIndex
                         = eng.veh[d].strategyPlan.currentStintIndex + 1
          /\ eng'.veh[d].pitStopCount # eng.veh[d].pitStopCount
                => call'.op = "update" /\ eng.veh[d].isInPit /\ ~eng'.veh[d].isInPit]_vars

\* C24 (witness): an update has just released a vehicle from its first stop:
\* its pit-stop logic left new tyres, which the same update has begun to wear.
C24_FirstStopDone ==
    /\ call.op = "update"
    /\ \E d \in Drivers :
          /\ call.logic[d].veh[d].pitStopCount = 1 /\ call.logic[d].veh[d].tyreWear = 0
          /\ call.logic[d].veh[d].distanceOnLap = PitLane.exitDistance
          /\ eng.veh[d].pitStopCount = 1 /\ eng.veh[d].tyreWear > 0

\* the phase of a pit visit: 1 driving_in, 2 stopped, 3 driving_out
PitPhase(ps) ==
    LET timeElapsed == ps.totalDuration - ps.timeLeft
    IN  IF 2 * timeElapsed < ps.laneTime THEN 1
        ELSE IF 2 * timeElapsed < ps.laneTime + 2 * ps.stopDuration THEN 2 ELSE 3
\* the step is an update of the running race
RaceTicks == call'.op = "update" /\ eng.status = "racing"

\* C25: every pit visit runs driving_in, stopped, driving_out, released in
\* that order, no phase skipped or repeated: the first pit tick starts
\* driving_in with laneTime + stopDuration on the timer, every update of the
\* running race takes dt off the timer, the phase (driving_in for the first
\* laneTime/2, stopped for the next stopDuration, driving_out after that)
\* stays or moves on by one, speed is the pit-lane limit when driving and 0
\* when stopped, and the vehicle is released from driving_out in the update
\* in which the timer reaches 0.  attemptOvertake runs after
\* handlePitStopLogic and has no isInPit test: it adds 5 m/s to a vehicle
\* standing in its box, or takes 5 % off the limit speed.
C25_PitPhasesInOrder ==
    [][\A d \in Drivers :
          LET ps == eng.pitStates[d]
              qs == eng'.pitStates[d]
          IN  /\ RaceTicks /\ eng.veh[d].isInPit /\ ~ps.active
                    => /\ qs.active /\ qs.totalDuration = qs.laneTime + qs.stopDuration
                       /\ qs.timeLeft = qs.totalDuration - call'.dt
                       /\ PitPhase(qs) = 1
              /\ RaceTicks /\ ps.active /\ ps.timeLeft - call'.dt > 0
                    => /\ qs = [ps EXCEPT !.timeLeft = @ - call'.dt]
                       /\ eng'.veh[d].isInPit
                       /\ PitPhase(qs) \in {PitPhase(ps), PitPhase(ps) + 1}
              /\ RaceTicks /\ ps.active /\ ps.timeLeft - call'.dt <= 0
                    => ~qs.active /\ ~eng'.veh[d].isInPit /\ PitPhase(ps) = 3
              /\ qs.active
                    => eng'.veh[d].speed = IF PitPhase(qs) = 2 THEN 0 ELSE PitLane.speedLimit
              /\ ~RaceTicks => qs = ps]_vars

\* C26: isInPit goes from false to true only in an update that leaves the
\* vehicle with boxThisLap = true and its distanceOnLap, as integrated, in
\* [entryDistance, entryDistance + 50); and a vehicle on track that had
\* boxThisLap set before entryDistance and reaches or passes entryDistance
\* with a step shorter than the 50 m window (every step of dt <= 0.1 s is:
\* speed stays far below 500 m/s) is in the pit lane after that update.
C26_PitEntryInWindow ==
    [][\A d \in Drivers :
          LET v == eng.veh[d]
              w == eng'.veh[d]
              step == w.totalDistance - v.totalDistance
          IN  /\ ~v.isInPit /\ w.isInPit
                    => /\ w.boxThisLap
                       /\ w.distanceOnLap >= PitLane.entryDistance
                       /\ w.distanceOnLap < PitLane.entryDistance + 50
              /\ ~v.isInPit /\ v.boxThisLap /\ v.distanceOnLap < PitLane.entryDistance
                             /\ v.distanceOnLap + step >= PitLane.entryDistance
                             /\ step < 50
                    => w.isInPit]_vars

\* C26 (witness): a vehicle called to the box before the entry line has just
\* driven into the pit lane with a step shorter than the window.
C26_DroveIntoPitLane ==
    \E d \in Drivers :
        /\ call.op = "update" /\ eng.veh[d].isInPit /\ ~eng.pitStates[d].active
        /\ eng.veh[d].speed * call.dt < 50
        /\ eng.veh[d].distanceOnLap - eng.veh[d].speed * call.dt < PitLane.entryDistance

\* the resources PhysicsSystem integrates
Resources(v) == <<v.fuelLoad, v.ersLevel, v.ersMode>>

\* C27 (as stated): in every update that starts with isInPit = true the
\* vehicle is not integrated: fuelLoad, ersLevel and ersMode are unchanged,
\* tyreWear is unchanged or reset to 0 by the release, and the position is
\* the one the pit-stop machine set.
C27_PitCarNeverIntegrated ==
    [][\A d \in Drivers :
          call'.op = "update" /\ eng.veh[d].isInPit
             => /\ Resources(eng'.veh[d]) = Resources(eng.veh[d])
                /\ \/ eng'.veh[d].tyreWear = eng.veh[d].tyreWear
                   \/ ~eng'.veh[d].isInPit /\ eng'.veh[d].tyreWear = 0
                /\ eng'.veh[d].distanceOnLap = call'.logic[d].veh[d].distanceOnLap
                /\ eng'.veh[d].totalDistance = call'.logic[d].veh[d].totalDistance]_vars

\* C27: a vehicle that starts an update in the pit lane and is not released
\* by it is not integrated: fuelLoad, ersLevel, ersMode and tyreWear are
\* unchanged and its position is the one handlePitStopLogic set.  In the
\* update that releases it, handlePitStopLogic clears isInPit before the
\* physics step of the same update, which then integrates the vehicle: it
\* moves on from the pit exit, burns fuel and wears its new tyres.
C27_PitCarIntegratedOnlyAtRelease ==
    [][\A d \in Drivers :
          LET v == eng.veh[d]
              l == call'.logic[d].veh[d]
              w == eng'.veh[d]
          IN  call'.op = "update" /\ v.isInPit
                 => IF l.isInPit
                    THEN /\ w.isInPit
                         /\ Resources(w) = Resources(v) /\ w.tyreWear = v.tyreWear
                         /\ w.distanceOnLap = l.distanceOnLap
                         /\ w.totalDistance = l.totalDistance
                    ELSE /\ l.tyreWear = 0 /\ Resources(l) = Resources(v)
                         /\ w.tyreWear > 0
                         /\ w.fuelLoad < v.fuelLoad \/ v.fuelLoad = 0
                         /\ w.totalDistance = l.totalDistance + w.speed * call'.dt]_vars

\* C27 (witness): a vehicle has spent an update in the pit lane, and another
\* has been released and integrated in the same update.
C27_ReleasedAndIntegrated ==
    /\ call.op = "update"
    /\ \E d \in Drivers :
          /\ ~call.logic[d].veh[d].isInPit /\ call.logic[d].veh[d].tyreWear = 0
          /\ call.logic[d].veh[d].pitStopCount > call.before.veh[d].pitStopCount
          /\ eng.veh[d].totalDistance > call.logic[d].veh[d].totalDistance

\* the vehicles whose damage the update raised above what they had at the
\* incident phase, which follows updateSafetyCar
Damaged(phase, e) == {d \in Drivers : e.veh[d].damage > phase.veh[d].damage}

\* C28: in one update at most one incident is triggered: at most one vehicle
\* has its damage raised, and then safetyCar goes from none at the incident
\* phase to one of vsc, sc, red-flag; after the safety-car step safetyCar
\* changes in no other way; with safetyCar not none at the incident phase,
\* or on lap 1, no damage is raised and safetyCar stays as it is.
C28_OneIncidentPerUpdate ==
    [][call'.op = "update" /\ eng.status = "racing"
          => LET phase == UpdateSafetyCar(eng, call'.dt)
                 hit   == Damaged(phase, eng')
             IN  /\ Cardinality(hit) <= 1
                 /\ hit # {} => /\ phase.safetyCar = "none" /\ phase.currentLap >= 2
                                /\ eng'.safetyCar \in {"vsc", "sc", "red-flag"}
                 /\ eng'.safetyCar # phase.safetyCar
                       => /\ phase.safetyCar = "none" /\ phase.currentLap >= 2
                          /\ eng'.safetyCar \in {"vsc", "sc", "red-flag"}
                 /\ phase.safetyCar # "none" \/ phase.currentLap < 2
                       => hit = {} /\ eng'.safetyCar = phase.safetyCar]_vars

\* C28 (witness): an incident has damaged one vehicle and called a
\* neutralisation, while another vehicle is still running.
C28_IncidentCalled ==
    /\ call.op = "update" /\ eng.safetyCar \in {"vsc", "sc"}
    /\ eng.safetyCarTimer \in {VscTime, ScTime}
    /\ \E d \in Drivers : eng.veh[d].damage > 0
    /\ \E d \in Drivers : Active(eng.veh[d])

\* the state attemptOvertake is called in for d, and the state it leaves
OvertakeIn(d) == UpdateDRS(call.logic[d], d)
OvertakeOut(d) == AttemptOvertake(OvertakeIn(d), d, call.ot[d])

\* C29: attemptOvertake changes the speed or isBattling of a vehicle only if
\* the vehicle has isBattling = true, position > 1 and gapToAhead <= 0.2 when
\* it runs; then a successful roll adds exactly 5 m/s and clears isBattling,
\* a failed roll keeps isBattling and leaves the speed or multiplies it by
\* 0.95; no other vehicle, the defender included, is changed.
C29_OvertakeResolver ==
    call.op = "update" =>
       \A d \in Drivers :
          LET a == OvertakeIn(d).veh[d]
              b == OvertakeOut(d).veh[d]
              close == a.isBattling /\ a.position > 1 /\ ~GapGt(a.gapToAhead, 2, 10)
          IN  /\ b.speed # a.speed \/ b.isBattling # a.isBattling => close
              /\ close /\ call.ot[d] = "pass"
                    => b.speed = a.speed + 5 /\ ~b.isBattling
              /\ call.ot[d] # "pass"
                    => /\ b.isBattling = a.isBattling
                       /\ b.speed \in {a.speed, Scale(a.speed, 95, 100)}
              /\ b = [a EXCEPT !.speed = b.speed, !.isBattling = b.isBattling]
              /\ \A x \in Drivers \ {d} : OvertakeOut(d).veh[x] = OvertakeIn(d).veh[x]

\* C29 (witness): an attacker within 0.2 s of the car ahead has just passed:
\* the resolver added 5 m/s and cleared isBattling.
C29_AttackerPassed ==
    /\ call.op = "update"
    /\ \E d \in Drivers :
          /\ call.ot[d] = "pass" /\ OvertakeIn(d).veh[d].isBattling
          /\ OvertakeOut(d).veh[d].speed = OvertakeIn(d).veh[d].speed + 5
          /\ ~OvertakeOut(d).veh[d].isBattling

\* the stints of the plan initializeStrategy returned
Stints == eng.plan.stints
\* each stint starts on the lap the previous one ends
StintsChained(st) == \A i \in 2..Len(st) : st[i].startLap = st[i-1].endLap

C31_PitCompound ==
    eng.status = "serviced" =>
        LET next == eng.plan.currentStintIndex     \* 0-based, as getPitCompound saw it
            lapsLeft == call.totalLaps - call.lap
        IN  /\ eng.tyreCompound \in Compounds
            /\ eng.tyreCompound =
                  IF call.rain > 60 THEN "wet"
                  ELSE IF call.rain > 10 THEN "intermediate"
                  ELSE IF next < Len(Stints) THEN Stints[next + 1].compound
                  ELSE IF lapsLeft < 15 THEN "soft"
                  ELSE IF lapsLeft < 30 THEN "medium" ELSE "hard"

\* C31 (witness): a stop beyond the last planned stint, in the dry with 30
\* laps to go, is served with hard tyres.
C31_ExtraStopOnHards ==
    /\ eng.status = "serviced" /\ call.rain = 10
    /\ eng.plan.currentStintIndex > Len(Stints)
    /\ call.totalLaps - call.lap = 30 /\ eng.tyreCompound = "hard"

\* C32: whenever an update brings the ersLevel of an on-track vehicle in
\* ersMode deploy to 0, its ersMode is balanced when the update returns; no
\* vehicle ends an update with ersLevel = 0 and ersMode = deploy.
C32_EmptyStoreForcesBalanced ==
    [][call'.op = "update" =>
          \A d \in Drivers :
             /\ ~eng.veh[d].isInPit /\ eng.veh[d].ersMode = "deploy"
                    /\ eng.veh[d].ersLevel > 0 /\ eng'.veh[d].ersLevel = 0
                 => eng'.veh[d].ersMode = "balanced"
             /\ ~(eng'.veh[d].ersLevel = 0 /\ eng'.veh[d].ersMode = "deploy")]_vars

\* the update now returning ran the forecast refresh of WeatherSystem.update
Refreshed ==
    /\ call'.op = "update"
    /\ eng.status = "racing"
    /\ eng.weatherMode = "simulation"
    /\ eng.forecastUpdateTimer + call'.dt > 60

\* C33: after every forecast refresh in simulation mode the forecast is
\* non-empty, at most one node has timeOffset <= elapsedTime, and the last
\* node's timeOffset is >= elapsedTime + 1800 -- also for a refresh that
\* follows a period spent in real weather mode.
C33_RefreshKeepsHorizon ==
    [][Refreshed =>
          LET fc == eng'.weatherForecast
          IN  /\ Len(fc) >= 1
              /\ Cardinality({i \in 1..Len(fc) : fc[i].timeOffset <= eng'.elapsedTime}) <= 1
              /\ fc[Len(fc)].timeOffset >= eng'.elapsedTime + 1800]_vars

\* C34: while weatherMode is real an update changes no weather field other
\* than the water depth: weatherForecast, cloudCover, rainIntensityLevel,
\* weather, airTemp, trackTemp, windSpeed and windDirection are unchanged.
C34_RealModeUpdateKeepsWeather ==
    [][call'.op = "update" /\ eng.weatherMode = "real" =>
          /\ eng'.weatherForecast = eng.weatherForecast
          /\ eng'.cloudCover = eng.cloudCover
          /\ eng'.rainIntensityLevel = eng.rainIntensityLevel
          /\ eng'.weather = eng.weather
          /\ eng'.airTemp = eng.airTemp
          /\ eng'.trackTemp = eng.trackTemp
          /\ eng'.windSpeed = eng.windSpeed
          /\ eng'.windDirection = eng.windDirection]_vars

\* an update ran in real mode on pushed data that the forecast does not
\* hold, and the water on the track rose
C34_RainedInRealMode ==
    /\ call.op = "update" /\ call.dt = 1
    /\ eng.status = "racing" /\ eng.weatherMode = "real"
    /\ \E data \in WeatherPayloads :
          /\ eng.cloudCover = data.cloudCover /\ eng.airTemp = data.temp
          /\ eng.windDirection = data.windDirection
    /\ eng.rainIntensityLevel > 0
    /\ eng.trackWaterDepth > 0
    /\ \A i \in 1..Len(eng.weatherForecast) :
          eng.weatherForecast[i].cloudCover # eng.cloudCover

\* C35: when elapsedTime equals the timeOffset of a forecast node (first,
\* interior or last node of the list), the weather update sets cloudCover
\* and rainIntensityLevel to exactly that node's cloudCover and rainIntensity.
C35_NodeValuesAtNodeTime ==
    call.op = "interpolate" =>
       \A i \in 1..Len(eng.weatherForecast) :
          eng.weatherForecast[i].timeOffset = eng.elapsedTime
             => /\ eng.cloudCover = eng.weatherForecast[i].cloudCover
                /\ eng.rainIntensityLevel = eng.weatherForecast[i].rainIntensity

\* C36: once status is finished it stays finished: no startRace(), update(),
\* updateStrategy(), setWeatherMode() or setRealWeatherData() call moves it
\* back to racing or pre-race or changes any vehicle.
C36_FinishedIsFinal ==
    [][eng.status = "finished" =>
          /\ eng'.status = "finished"
          /\ eng'.veh = eng.veh
          /\ eng'.vehicles = eng.vehicles]_vars

\* C37: a DNF is permanent: once a vehicle's damage reaches 100 it stays 100
\* after every later update; no pit release or other operation brings the
\* vehicle back to damage < 100 and so back into the set of active vehicles.
C37_DnfIsPermanent ==
    [][\A d \in Drivers :
          eng.veh[d].damage = 100 => eng'.veh[d].damage = 100 /\ ~Active(eng'.veh[d])]_vars

\* C38: a DNF'd vehicle takes no further part in the race: after the update
\* in which its damage became 100 its distanceOnLap, lapCount and
\* totalDistance no longer change, it never becomes winnerId, and it never
\* enters the pit lane.
C38_DnfStandsStill ==
    [][\A d \in Drivers :
          eng.veh[d].damage = 100 =>
             /\ eng'.veh[d].distanceOnLap = eng.veh[d].distanceOnLap
             /\ eng'.veh[d].lapCount = eng.veh[d].lapCount
             /\ eng'.veh[d].totalDistance = eng.veh[d].totalDistance
             /\ eng'.winnerId = d => eng.winnerId = d
             /\ eng'.veh[d].isInPit => eng.veh[d].isInPit]_vars

TimerRuns ==
    /\ eng'.safetyCar # "none" => eng'.safetyCarTimer > 0
    /\ eng'.safetyCar = "none" => eng'.safetyCarTimer = 0
    /\ eng.safetyCar # "none" /\ eng.safetyCarTimer - call'.dt > 0
          => /\ eng'.safetyCar = eng.safetyCar
             /\ eng'.safetyCarTimer = eng.safetyCarTimer - call'.dt
\* the update ends the neutralisation it was called in
TimerElapses ==
    eng.safetyCar # "none" /\ eng.safetyCarTimer - call'.dt <= 0

\* C40 (as stated): every neutralisation ends: with safetyCar vsc, sc or
\* red-flag at the end of an update the timer is > 0, each later update in
\* status racing lowers it by dt, and safetyCar is none when the update in
\* which the timer reaches 0 or below returns (the red-flag restart having
\* run for red-flag); while safetyCar is none the timer is 0.
C40_NoneWhenTimerElapses ==
    [][call'.op = "update" /\ eng.status = "racing"
          => /\ TimerRuns
             /\ TimerElapses => /\ eng'.safetyCar = "none"
                                /\ eng.safetyCar = "red-flag" => call'.restart.done]_vars

\* C40 (amended): the same, except that the update in which the timer
\* reaches 0 or below returns either safetyCar none or a neutralisation that
\* checkIncidents called in that same update, its timer freshly drawn.
C40_NoneOrCalledAnewWhenTimerElapses ==
    [][call'.op = "update" /\ eng.status = "racing"
          => /\ TimerRuns
             /\ TimerElapses => /\ \/ eng'.safetyCar = "none"
                                   \/ /\ eng'.currentLap >= 2
                                      /\ eng'.safetyCarTimer \in {VscTime, ScTime, RedFlagTime}
                                /\ eng.safetyCar = "red-flag" => call'.restart.done]_vars

\* C40 (witness): the update that ended a red flag has called the next
\* neutralisation.
C40_NeutralisedAgainAtOnce ==
    /\ call.op = "update" /\ call.restart.done
    /\ call.restart.safetyCar = "none"
    /\ eng.safetyCar # "none" /\ eng.safetyCarTimer > 0

====
